---- MODULE Spec2Model ----
(***************************************************************************)
(* Low-level discovery rule processing (src/libs/zbxdbhigh/lld.c):         *)
(* the filter engine, the macro resolver and the rule driver               *)
(* lld_process_discovery_rule().                                           *)
(*                                                                         *)
(* C strings whose characters matter (regexp operands, macro values, the   *)
(* custom expression) are sequences of one-character strings; names that   *)
(* are only compared (LLD macros, JSON keys and paths) are TLA+ strings.   *)
(***************************************************************************)
EXTENDS Integers, Sequences, FiniteSets, TLC

(***************************************************************************)
(* Bounds of the model.                                                    *)
(***************************************************************************)
MaxConds == 3
MaxRuns == 2
MaxElems == 2

(***************************************************************************)
(* Return codes and enumerations.                                          *)
(***************************************************************************)
SUCCEED == "SUCCEED"
FAIL == "FAIL"
ZBX_REGEXP_MATCH == "ZBX_REGEXP_MATCH"
ZBX_REGEXP_NO_MATCH == "ZBX_REGEXP_NO_MATCH"
CONDITION_OPERATOR_REGEXP == "REGEXP"
CONDITION_OPERATOR_NOT_REGEXP == "NOT_REGEXP"
CONDITION_EVAL_TYPE_AND_OR == "AND_OR"
CONDITION_EVAL_TYPE_AND == "AND"
CONDITION_EVAL_TYPE_OR == "OR"
CONDITION_EVAL_TYPE_EXPRESSION == "EXPRESSION"
NULL == "NULL"

(***************************************************************************)
(* Character strings.                                                      *)
(***************************************************************************)
DigitChars == <<"0", "1", "2", "3", "4", "5", "6", "7", "8", "9">>

IsDigit(c) == \E k \in 1..10 : DigitChars[k] = c

DigitValue(c) == (CHOOSE k \in 1..10 : DigitChars[k] = c) - 1

IsLetter(c) == c \in {"a", "d", "n", "o", "r", "t"}

RECURSIVE FormatUI64(_)
(* "%llu" of zbx_snprintf: the decimal digits of n *)
FormatUI64(n) ==
    IF n < 10 THEN <<DigitChars[n + 1]>>
    ELSE FormatUI64(n \div 10) \o <<DigitChars[(n % 10) + 1]>>

(* the first position >= from at which needle occurs in s, 0 when none *)
strstr(s, from, needle) ==
    LET n == Len(needle)
        hits == {p \in from..(Len(s) - n + 1) : SubSeq(s, p, p + n - 1) = needle}
    IN  IF hits = {} THEN 0 ELSE CHOOSE p \in hits : \A q \in hits : p <= q

(***************************************************************************)
(* LLD macro names, ordered as strcmp() orders them.                       *)
(***************************************************************************)
LLDMacros == {"{#A}", "{#B}"}

MacroOrd(m) == CASE m = "{#A}" -> 1 [] m = "{#B}" -> 2

strcmp(s1, s2) == MacroOrd(s1) - MacroOrd(s2)

lld_macro_paths_compare(r1, r2) == strcmp(r1.lld_macro, r2.lld_macro)

lld_condition_compare_by_macro(condition1, condition2) ==
    strcmp(condition1.macro, condition2.macro)

(***************************************************************************)
(* JSON rows: an object is a function from the keys it has to their string *)
(* values.  A JSON path "$.k" opens on a row iff the row has the key k.    *)
(***************************************************************************)
PlainKeys == {"b"}
RowKeys == LLDMacros \cup PlainKeys
JsonPaths == {"$.b"}

PathKey(path) == CASE path = "$.b" -> "b"

zbx_json_path_open(jp_row, path) ==
    IF PathKey(path) \in DOMAIN jp_row THEN SUCCEED ELSE FAIL

zbx_json_value_dyn(jp_row, path) == jp_row[PathKey(path)]

zbx_json_pair_by_name(jp_row, name) ==
    IF name \in DOMAIN jp_row THEN name ELSE NULL

(* [ret, value]: the value of the top-level pair called name *)
zbx_json_value_by_name_dyn(jp_row, name) ==
    IF zbx_json_pair_by_name(jp_row, name) # NULL
    THEN [ret |-> SUCCEED, value |-> jp_row[name]]
    ELSE [ret |-> FAIL, value |-> <<>>]

RECURSIVE bsearch_range(_, _, _, _)
bsearch_range(paths, macro, lo, hi) ==
    IF lo > hi THEN 0
    ELSE LET mid == (lo + hi) \div 2
             c == strcmp(macro, paths[mid].lld_macro)
         IN  IF c = 0 THEN mid
             ELSE IF c < 0 THEN bsearch_range(paths, macro, lo, mid - 1)
             ELSE bsearch_range(paths, macro, mid + 1, hi)

(* index (from 1) of the entry of the sorted table for macro; 0 is C's FAIL *)
zbx_vector_ptr_bsearch(lld_macro_paths, macro) ==
    bsearch_range(lld_macro_paths, macro, 1, Len(lld_macro_paths))

(***************************************************************************)
(* The regular expression engine: a pattern without '@' is a literal that  *)
(* matches the values containing it; a pattern with an unbalanced "(" does *)
(* not compile; the empty pattern matches everything; "@name" matches when *)
(* every expression of the resolved set matches (none resolved: error).    *)
(***************************************************************************)
Contains(string, pattern) == strstr(string, 1, pattern) # 0

regexp_compiles(pattern) == \A k \in 1..Len(pattern) : pattern[k] # "("

regexp_match_ex(regexps, string, pattern) ==
    IF pattern = <<>> THEN ZBX_REGEXP_MATCH
    ELSE IF pattern[1] # "@"
    THEN IF ~regexp_compiles(pattern) THEN FAIL
         ELSE IF Contains(string, pattern) THEN ZBX_REGEXP_MATCH
         ELSE ZBX_REGEXP_NO_MATCH
    ELSE IF regexps = {} THEN FAIL
    ELSE IF \E e \in regexps : ~regexp_compiles(e) THEN FAIL
    ELSE IF \A e \in regexps : Contains(string, e) THEN ZBX_REGEXP_MATCH
    ELSE ZBX_REGEXP_NO_MATCH

(***************************************************************************)
(* zbx_lld_macro_value_by_name(): [ret, value]                             *)
(***************************************************************************)
zbx_lld_macro_value_by_name_falls_through(jp_row, lld_macro_paths, macro) ==
    LET index == zbx_vector_ptr_bsearch(lld_macro_paths, macro)
    IN  IF index # 0 /\ zbx_json_path_open(jp_row, lld_macro_paths[index].path) # FAIL
        THEN [ret |-> SUCCEED,
              value |-> zbx_json_value_dyn(jp_row, lld_macro_paths[index].path)]
        ELSE zbx_json_value_by_name_dyn(jp_row, macro)

zbx_lld_macro_value_by_name(jp_row, lld_macro_paths, macro) ==
    LET index == zbx_vector_ptr_bsearch(lld_macro_paths, macro)
    IN  IF index # 0
        THEN LET lld_macro_path == lld_macro_paths[index]
             IN  IF zbx_json_path_open(jp_row, lld_macro_path.path) # FAIL
                 THEN [ret |-> SUCCEED,
                       value |-> zbx_json_value_dyn(jp_row, lld_macro_path.path)]
                 ELSE [ret |-> FAIL, value |-> <<>>]
        ELSE zbx_json_value_by_name_dyn(jp_row, macro)

(***************************************************************************)
(* filter_condition_match()                                                *)
(***************************************************************************)
filter_condition_match_miss_consults(jp_row, lld_macro_paths, condition) ==
    LET v == zbx_lld_macro_value_by_name(jp_row, lld_macro_paths, condition.macro)
        m == regexp_match_ex(condition.regexps, v.value, condition.regexp)
    IN  IF m = ZBX_REGEXP_MATCH
        THEN (IF CONDITION_OPERATOR_REGEXP = condition.op THEN SUCCEED ELSE FAIL)
        ELSE IF m = ZBX_REGEXP_NO_MATCH
        THEN (IF CONDITION_OPERATOR_NOT_REGEXP = condition.op THEN SUCCEED ELSE FAIL)
        ELSE FAIL

filter_condition_match_no_match_fails(jp_row, lld_macro_paths, condition) ==
    LET v == zbx_lld_macro_value_by_name(jp_row, lld_macro_paths, condition.macro)
    IN  IF v.ret = SUCCEED
        THEN LET m == regexp_match_ex(condition.regexps, v.value, condition.regexp)
             IN  IF m = ZBX_REGEXP_MATCH
                 THEN (IF CONDITION_OPERATOR_REGEXP = condition.op THEN SUCCEED ELSE FAIL)
                 ELSE FAIL
        ELSE v.ret

filter_condition_match(jp_row, lld_macro_paths, condition) ==
    LET v == zbx_lld_macro_value_by_name(jp_row, lld_macro_paths, condition.macro)
    IN  IF v.ret = SUCCEED
        THEN LET m == regexp_match_ex(condition.regexps, v.value, condition.regexp)
             IN  IF m = ZBX_REGEXP_MATCH
                 THEN (IF CONDITION_OPERATOR_REGEXP = condition.op THEN SUCCEED ELSE FAIL)
                 ELSE IF m = ZBX_REGEXP_NO_MATCH
                 THEN (IF CONDITION_OPERATOR_NOT_REGEXP = condition.op THEN SUCCEED ELSE FAIL)
                 ELSE FAIL
        ELSE v.ret

(***************************************************************************)
(* The expression evaluator evaluate(): numbers, "not", "and", "or" and    *)
(* parentheses, with "not" binding tighter than "and" and "and" tighter    *)
(* than "or".  Anything else in the text is an error.                      *)
(***************************************************************************)
CharClass(c) == IF IsDigit(c) THEN "digit" ELSE IF IsLetter(c) THEN "letter" ELSE c

RECURSIVE RunEnd(_, _)
RunEnd(s, i) ==
    IF i < Len(s) /\ CharClass(s[i]) \in {"digit", "letter"}
          /\ CharClass(s[i + 1]) = CharClass(s[i])
    THEN RunEnd(s, i + 1)
    ELSE i

RECURSIVE Tokens(_, _)
Tokens(s, i) ==
    IF i > Len(s) THEN <<>>
    ELSE IF s[i] = " " THEN Tokens(s, i + 1)
    ELSE LET j == RunEnd(s, i) IN <<SubSeq(s, i, j)>> \o Tokens(s, j + 1)

RECURSIVE DecValue(_)
DecValue(tok) ==
    IF tok = <<>> THEN 0
    ELSE 10 * DecValue(SubSeq(tok, 1, Len(tok) - 1)) + DigitValue(tok[Len(tok)])

ParseError == [ok |-> FALSE, value |-> 0, rest |-> <<>>]

RECURSIVE ParseOr(_)
RECURSIVE ParseAnd(_)
RECURSIVE ParseNot(_)
ParseNot(toks) ==
    IF toks = <<>> THEN ParseError
    ELSE IF Head(toks) = <<"n", "o", "t">>
    THEN LET r == ParseNot(Tail(toks))
         IN  IF r.ok THEN [r EXCEPT !.value = IF @ = 0 THEN 1 ELSE 0] ELSE r
    ELSE IF Head(toks) = <<"(">>
    THEN LET r == ParseOr(Tail(toks))
         IN  IF r.ok /\ r.rest # <<>> /\ Head(r.rest) = <<")">>
             THEN [r EXCEPT !.rest = Tail(@)]
             ELSE ParseError
    ELSE IF IsDigit(Head(toks)[1])
    THEN [ok |-> TRUE, value |-> DecValue(Head(toks)), rest |-> Tail(toks)]
    ELSE ParseError

ParseAnd(toks) ==
    LET l == ParseNot(toks)
    IN  IF l.ok /\ l.rest # <<>> /\ Head(l.rest) = <<"a", "n", "d">>
        THEN LET r == ParseAnd(Tail(l.rest))
             IN  IF r.ok
                 THEN [r EXCEPT !.value = IF l.value # 0 /\ @ # 0 THEN 1 ELSE 0]
                 ELSE r
        ELSE l

ParseOr(toks) ==
    LET l == ParseAnd(toks)
    IN  IF l.ok /\ l.rest # <<>> /\ Head(l.rest) = <<"o", "r">>
        THEN LET r == ParseOr(Tail(l.rest))
             IN  IF r.ok
                 THEN [r EXCEPT !.value = IF l.value # 0 \/ @ # 0 THEN 1 ELSE 0]
                 ELSE r
        ELSE l

(* [ret, value] *)
evaluate(expression) ==
    LET r == ParseOr(Tokens(expression, 1))
    IN  IF r.ok /\ r.rest = <<>>
        THEN [ret |-> SUCCEED, value |-> r.value]
        ELSE [ret |-> FAIL, value |-> 0]

(* the values of the boolean grammar are whole numbers, far apart compared *)
(* with the tolerance of the comparison                                    *)
zbx_double_compare(a, b) == IF a = b THEN SUCCEED ELSE FAIL

(***************************************************************************)
(* filter_evaluate_and_or()                                                *)
(* The walk keeps [ret, lastmacro, stop] and the calls it made to          *)
(* filter_condition_match: evaluated (indices) and matches (results).      *)
(***************************************************************************)
and_or_step_no_or(acc, condition, rc) ==
    IF acc.lastmacro = NULL \/ 0 # strcmp(acc.lastmacro, condition.macro)
    THEN IF FAIL = acc.ret
         THEN [acc EXCEPT !.stop = TRUE]
         ELSE [acc EXCEPT !.ret = rc, !.lastmacro = condition.macro]
    ELSE [acc EXCEPT !.ret = rc, !.lastmacro = condition.macro]

and_or_step(acc, condition, rc) ==
    IF acc.lastmacro = NULL \/ 0 # strcmp(acc.lastmacro, condition.macro)
    THEN IF FAIL = acc.ret
         THEN [acc EXCEPT !.stop = TRUE]
         ELSE [acc EXCEPT !.ret = rc, !.lastmacro = condition.macro]
    ELSE [acc EXCEPT !.ret = IF SUCCEED = rc THEN rc ELSE @,
                     !.lastmacro = condition.macro]

RECURSIVE and_or_loop(_, _, _, _, _)
and_or_loop(filter, jp_row, lld_macro_paths, i, acc) ==
    IF i > Len(filter.conditions) THEN acc
    ELSE LET condition == filter.conditions[i]
             rc == filter_condition_match(jp_row, lld_macro_paths, condition)
             seen == [acc EXCEPT !.evaluated = Append(@, i), !.matches = Append(@, rc)]
             next == and_or_step(seen, condition, rc)
         IN  IF next.stop THEN next
             ELSE and_or_loop(filter, jp_row, lld_macro_paths, i + 1, next)

filter_evaluate_and_or(filter, jp_row, lld_macro_paths) ==
    LET acc == and_or_loop(filter, jp_row, lld_macro_paths, 1,
                   [ret |-> SUCCEED, lastmacro |-> NULL, stop |-> FALSE,
                    evaluated |-> <<>>, matches |-> <<>>])
    IN  [ret |-> acc.ret, evaluated |-> acc.evaluated, matches |-> acc.matches,
         expression |-> <<>>]

(***************************************************************************)
(* filter_evaluate_and()                                                   *)
(***************************************************************************)
and_break_never(ret) == FALSE

and_break(ret) == SUCCEED # ret

RECURSIVE and_loop(_, _, _, _, _)
and_loop(filter, jp_row, lld_macro_paths, i, acc) ==
    IF i > Len(filter.conditions) THEN acc
    ELSE LET ret == filter_condition_match(jp_row, lld_macro_paths, filter.conditions[i])
             next == [ret |-> ret, evaluated |-> Append(acc.evaluated, i),
                      matches |-> Append(acc.matches, ret)]
         IN  IF and_break(ret) THEN next
             ELSE and_loop(filter, jp_row, lld_macro_paths, i + 1, next)

filter_evaluate_and(filter, jp_row, lld_macro_paths) ==
    LET acc == and_loop(filter, jp_row, lld_macro_paths, 1,
                   [ret |-> SUCCEED, evaluated |-> <<>>, matches |-> <<>>])
    IN  [ret |-> acc.ret, evaluated |-> acc.evaluated, matches |-> acc.matches,
         expression |-> <<>>]

(***************************************************************************)
(* filter_evaluate_or()                                                    *)
(***************************************************************************)
or_break_never(ret) == FALSE

or_break(ret) == SUCCEED = ret

RECURSIVE or_loop(_, _, _, _, _)
or_loop(filter, jp_row, lld_macro_paths, i, acc) ==
    IF i > Len(filter.conditions) THEN acc
    ELSE LET ret == filter_condition_match(jp_row, lld_macro_paths, filter.conditions[i])
             next == [ret |-> ret, evaluated |-> Append(acc.evaluated, i),
                      matches |-> Append(acc.matches, ret)]
         IN  IF or_break(ret) THEN next
             ELSE or_loop(filter, jp_row, lld_macro_paths, i + 1, next)

filter_evaluate_or(filter, jp_row, lld_macro_paths) ==
    LET acc == or_loop(filter, jp_row, lld_macro_paths, 1,
                   [ret |-> SUCCEED, evaluated |-> <<>>, matches |-> <<>>])
    IN  [ret |-> acc.ret, evaluated |-> acc.evaluated, matches |-> acc.matches,
         expression |-> <<>>]

(***************************************************************************)
(* filter_evaluate_expression()                                            *)
(***************************************************************************)
(* "{" ZBX_FS_UI64 "}" *)
condition_token(id) == <<"{">> \o FormatUI64(id) \o <<"}">>

replace_at_no_padding(expression, p, id_len, ret) ==
    SubSeq(expression, 1, p - 1) \o <<IF SUCCEED = ret THEN "1" ELSE "0">>
        \o SubSeq(expression, p + id_len, Len(expression))

(* *p = '1' or '0'; memset(p + 1, ' ', id_len - 1) *)
replace_at(expression, p, id_len, ret) ==
    [k \in 1..Len(expression) |->
        IF k = p THEN (IF SUCCEED = ret THEN "1" ELSE "0")
        ELSE IF p < k /\ k < p + id_len THEN " "
        ELSE expression[k]]

replace_first_only(expression, from, id, ret) ==
    LET p == strstr(expression, from, id)
    IN  IF p = 0 THEN expression ELSE replace_at(expression, p, Len(id), ret)

RECURSIVE replace_all(_, _, _, _)
(* while (NULL != (p = strstr(p, id))) { ...; p += id_len; } *)
replace_all(expression, from, id, ret) ==
    LET p == strstr(expression, from, id)
    IN  IF p = 0 THEN expression
        ELSE LET replaced == replace_at(expression, p, Len(id), ret)
             IN  replace_all(replaced, p + Len(id), id, ret)

RECURSIVE expression_loop(_, _, _, _, _)
expression_loop(filter, jp_row, lld_macro_paths, i, acc) ==
    IF i > Len(filter.conditions) THEN acc
    ELSE LET condition == filter.conditions[i]
             ret == filter_condition_match(jp_row, lld_macro_paths, condition)
             id == condition_token(condition.id)
         IN  expression_loop(filter, jp_row, lld_macro_paths, i + 1,
                [ret |-> ret,
                 expression |-> replace_all(acc.expression, 1, id, ret),
                 evaluated |-> Append(acc.evaluated, i),
                 matches |-> Append(acc.matches, ret)])

(* the local copy of the expression after the first n conditions *)
substituted(filter, jp_row, lld_macro_paths, n) ==
    expression_loop([filter EXCEPT !.conditions = SubSeq(@, 1, n)], jp_row,
        lld_macro_paths, 1,
        [ret |-> FAIL, expression |-> filter.expression,
         evaluated |-> <<>>, matches |-> <<>>]).expression

filter_evaluate_expression(filter, jp_row, lld_macro_paths) ==
    LET acc == expression_loop(filter, jp_row, lld_macro_paths, 1,
                   [ret |-> FAIL, expression |-> filter.expression,
                    evaluated |-> <<>>, matches |-> <<>>])
        ev == evaluate(acc.expression)
    IN  [ret |-> IF SUCCEED = ev.ret
                 THEN (IF SUCCEED # zbx_double_compare(ev.value, 0) THEN SUCCEED ELSE FAIL)
                 ELSE acc.ret,
         evaluated |-> acc.evaluated, matches |-> acc.matches,
         expression |-> acc.expression]

(***************************************************************************)
(* filter_evaluate()                                                       *)
(***************************************************************************)
filter_evaluate(filter, jp_row, lld_macro_paths) ==
    CASE filter.evaltype = CONDITION_EVAL_TYPE_AND_OR ->
            filter_evaluate_and_or(filter, jp_row, lld_macro_paths)
      [] filter.evaltype = CONDITION_EVAL_TYPE_AND ->
            filter_evaluate_and(filter, jp_row, lld_macro_paths)
      [] filter.evaltype = CONDITION_EVAL_TYPE_OR ->
            filter_evaluate_or(filter, jp_row, lld_macro_paths)
      [] filter.evaltype = CONDITION_EVAL_TYPE_EXPRESSION ->
            filter_evaluate_expression(filter, jp_row, lld_macro_paths)
      [] OTHER ->
            [ret |-> FAIL, evaluated |-> <<>>, matches |-> <<>>, expression |-> <<>>]

(***************************************************************************)
(* The configuration cache and the store, as lld_filter_load() reads them. *)
(* A literal operand may hold the user macro {$M}, which                   *)
(* substitute_simple_macros() replaces by its value.                       *)
(***************************************************************************)
UserMacro == <<"{", "$", "M", "}">>

RECURSIVE substitute_from(_, _, _)
substitute_from(data, from, value) ==
    LET p == strstr(data, from, UserMacro)
    IN  IF p = 0 THEN data
        ELSE substitute_from(SubSeq(data, 1, p - 1) \o value
                                \o SubSeq(data, p + Len(UserMacro), Len(data)),
                             p + Len(value), value)

(* MACRO_TYPE_LLD_FILTER: user macros in the context of the rule's host *)
substitute_simple_macros(cache, data) == substitute_from(data, 1, cache.usermacro)

(* the expressions of the global regular expression called name *)
DCget_expressions_by_name(cache, name) ==
    IF name \in DOMAIN cache.regexps THEN cache.regexps[name] ELSE {}

(* errcode of DCconfig_get_items_by_itemids() for one item id *)
DCconfig_get_items_by_itemids(cache, lld_ruleid) ==
    IF lld_ruleid \in cache.items THEN SUCCEED ELSE FAIL

(* every order qsort() may leave the vector in: sorted by compare, with    *)
(* elements that compare equal in any order                                *)
zbx_vector_ptr_sort(values) ==
    LET n == Len(values)
        perms == {f \in [1..n -> 1..n] : \A i, j \in 1..n : i # j => f[i] # f[j]}
    IN  {[k \in 1..n |-> values[f[k]]] : f \in
            {g \in perms : \A i \in 1..(n - 1) :
                lld_condition_compare_by_macro(values[g[i]], values[g[i + 1]]) <= 0}}

(***************************************************************************)
(* lld_filter_load(): the set of outcomes [ret, filter, error]             *)
(***************************************************************************)
(* a message is a sequence of strings, an error text a sequence of messages *)
ErrInvalidRuleId(lld_ruleid) == <<"Invalid discovery rule ID">> \o FormatUI64(lld_ruleid)
ErrNoGlobalRegexp(name) == <<"Global regular expression does not exist">> \o name

(* one DBfetch() row of item_condition turned into a condition *)
load_condition(cache, row) ==
    LET at == row.value # <<>> /\ row.value[1] = "@"
    IN  [id |-> row.item_conditionid,
         macro |-> row.macro,
         regexp |-> IF at THEN row.value ELSE substitute_simple_macros(cache, row.value),
         regexps |-> IF at THEN DCget_expressions_by_name(cache, Tail(row.value)) ELSE {},
         op |-> row.operator]

RECURSIVE load_conditions(_, _, _, _)
(* while (NULL != (row = DBfetch(result))): [ret, conditions, error] *)
load_conditions(cache, rows, i, conditions) ==
    IF i > Len(rows) THEN [ret |-> SUCCEED, conditions |-> conditions, error |-> <<>>]
    ELSE LET condition == load_condition(cache, rows[i])
         IN  IF rows[i].value # <<>> /\ rows[i].value[1] = "@" /\ condition.regexps = {}
             THEN [ret |-> FAIL, conditions |-> Append(conditions, condition),
                   error |-> <<ErrNoGlobalRegexp(Tail(rows[i].value))>>]
             ELSE load_conditions(cache, rows, i + 1, Append(conditions, condition))

sorted_when_and_or_unsorted(filter, conditions) == {conditions}

(* else if (CONDITION_EVAL_TYPE_AND_OR == filter->evaltype) zbx_vector_ptr_sort() *)
sorted_when_and_or(filter, conditions) ==
    IF CONDITION_EVAL_TYPE_AND_OR = filter.evaltype
    THEN zbx_vector_ptr_sort(conditions)
    ELSE {conditions}

lld_filter_load(filter, lld_ruleid, cache, item_condition) ==
    IF SUCCEED # DCconfig_get_items_by_itemids(cache, lld_ruleid)
    THEN {[ret |-> FAIL, filter |-> filter,
           error |-> <<ErrInvalidRuleId(lld_ruleid)>>]}
    ELSE LET l == load_conditions(cache, item_condition, 1, filter.conditions)
         IN  IF SUCCEED # l.ret
             THEN {[ret |-> FAIL, filter |-> [filter EXCEPT !.conditions = <<>>],
                    error |-> l.error]}
             ELSE {[ret |-> SUCCEED, filter |-> [filter EXCEPT !.conditions = c],
                    error |-> <<>>] : c \in sorted_when_and_or(filter, l.conditions)}

(* lld_filter_init() *)
lld_filter_init == [conditions |-> <<>>, expression |-> <<>>,
                    evaltype |-> CONDITION_EVAL_TYPE_AND_OR]

(***************************************************************************)
(* lld_macro_paths_get(): [ret, lld_macro_paths, error] from the rows of   *)
(* lld_macro_path, which the store returns ordered by lld_macro.           *)
(***************************************************************************)
zbx_json_path_check(path) == IF path \in JsonPaths THEN SUCCEED ELSE FAIL

ErrCannotProcessMacro(lld_macro) == <<"Cannot process LLD macro", lld_macro>>

RECURSIVE macro_paths_loop(_, _, _)
macro_paths_loop(rows, i, lld_macro_paths) ==
    IF i > Len(rows)
    THEN [ret |-> SUCCEED, lld_macro_paths |-> lld_macro_paths, error |-> <<>>]
    ELSE IF SUCCEED # zbx_json_path_check(rows[i].path)
    THEN [ret |-> FAIL, lld_macro_paths |-> lld_macro_paths,
          error |-> <<ErrCannotProcessMacro(rows[i].lld_macro)>>]
    ELSE macro_paths_loop(rows, i + 1,
            Append(lld_macro_paths, [lld_macro |-> rows[i].lld_macro,
                                     path |-> rows[i].path]))

lld_macro_paths_get(lld_macro_path) == macro_paths_loop(lld_macro_path, 1, <<>>)

(***************************************************************************)
(* lld_check_received_data_for_filter(): the lines appended to info        *)
(***************************************************************************)
InfoNoValuePath(lld_macro, path) ==
    <<"Cannot accurately apply filter: no value received for macro", lld_macro,
      "json path", path>>
InfoNoValue(macro) ==
    <<"Cannot accurately apply filter: no value received for macro", macro>>

RECURSIVE check_received_loop(_, _, _, _)
check_received_loop(filter, jp_row, lld_macro_paths, i) ==
    IF i > Len(filter.conditions) THEN <<>>
    ELSE LET condition == filter.conditions[i]
             index == zbx_vector_ptr_bsearch(lld_macro_paths, condition.macro)
             line == IF index # 0
                     THEN IF FAIL = zbx_json_path_open(jp_row, lld_macro_paths[index].path)
                          THEN <<InfoNoValuePath(lld_macro_paths[index].lld_macro,
                                                 lld_macro_paths[index].path)>>
                          ELSE <<>>
                     ELSE IF NULL = zbx_json_pair_by_name(jp_row, condition.macro)
                          THEN <<InfoNoValue(condition.macro)>>
                          ELSE <<>>
         IN  line \o check_received_loop(filter, jp_row, lld_macro_paths, i + 1)

lld_check_received_data_for_filter(filter, jp_row, lld_macro_paths) ==
    check_received_loop(filter, jp_row, lld_macro_paths, 1)

(***************************************************************************)
(* lld_rows_get(): [ret, lld_rows, info, error].  A payload is unparseable *)
(* text, an array of elements, or an object that has an array under "data" *)
(* or has not; an element is an object (a row) or something else.          *)
(***************************************************************************)
(* a payload: kind is what the top-level value is ("text" when it does not *)
(* parse), data what an object has under the key "data" ("none", "array"   *)
(* or "other"), elements the elements of the array                         *)
NoPayload == [kind |-> "text", data |-> "none", elements |-> <<>>]

(* an element of the array: an object with its pairs, or something else *)
Object(pairs) == [object |-> TRUE, pairs |-> pairs]
Scalar == [object |-> FALSE, pairs |-> <<>>]

ErrNotJsonArray == <<"Value should be a JSON array.">>
ErrNoDataArray == <<"Cannot find the data array in the received JSON object.">>

zbx_json_open(value) == IF value.kind \in {"array", "object"} THEN SUCCEED ELSE FAIL

zbx_json_brackets_by_name(jp, name) ==
    IF jp.kind = "object" /\ jp.data = "array" THEN SUCCEED ELSE FAIL

zbx_json_brackets_open(p) == IF p.object THEN SUCCEED ELSE FAIL

(* mutant: the row is kept whatever the filter says *)
rows_keep_whatever(acc, jp_row, info, ret) ==
    [acc EXCEPT !.info = info,
                !.lld_rows = Append(@, [jp_row |-> jp_row, item_links |-> <<>>])]

(* lld_check_received_data_for_filter() has appended info; the row is    *)
(* kept when the filter passes it                                          *)
rows_keep(acc, jp_row, info, ret) ==
    IF SUCCEED # ret
    THEN [acc EXCEPT !.info = info]
    ELSE [acc EXCEPT !.info = info,
                     !.lld_rows = Append(@, [jp_row |-> jp_row, item_links |-> <<>>])]

(* one element p of the array: skipped unless it is an object *)
rows_step(acc, p, filter, lld_macro_paths) ==
    IF FAIL = zbx_json_brackets_open(p) THEN acc
    ELSE rows_keep(acc, p.pairs,
            acc.info \o lld_check_received_data_for_filter(filter, p.pairs, lld_macro_paths),
            filter_evaluate(filter, p.pairs, lld_macro_paths).ret)

RECURSIVE rows_loop(_, _, _, _, _)
(* while (NULL != (p = zbx_json_next(&jp_array, p))) *)
rows_loop(elements, filter, lld_macro_paths, i, acc) ==
    IF i > Len(elements) THEN acc
    ELSE rows_loop(elements, filter, lld_macro_paths, i + 1,
                   rows_step(acc, elements[i], filter, lld_macro_paths))

rows_result(acc) ==
    [ret |-> SUCCEED, lld_rows |-> acc.lld_rows, info |-> acc.info, error |-> <<>>]

(* mutant: the array is not looked for under "data" *)
lld_rows_get_any_object(value, filter, lld_macro_paths) ==
    IF SUCCEED # zbx_json_open(value)
    THEN [ret |-> FAIL, lld_rows |-> <<>>, info |-> <<>>, error |-> <<ErrNotJsonArray>>]
    ELSE rows_result(rows_loop(value.elements, filter, lld_macro_paths, 1,
                               [lld_rows |-> <<>>, info |-> <<>>]))

lld_rows_get(value, filter, lld_macro_paths) ==
    IF SUCCEED # zbx_json_open(value)
    THEN [ret |-> FAIL, lld_rows |-> <<>>, info |-> <<>>, error |-> <<ErrNotJsonArray>>]
    ELSE IF value.kind # "array" /\ SUCCEED # zbx_json_brackets_by_name(value, "data")
    THEN [ret |-> FAIL, lld_rows |-> <<>>, info |-> <<>>, error |-> <<ErrNoDataArray>>]
    ELSE rows_result(rows_loop(value.elements, filter, lld_macro_paths, 1,
                               [lld_rows |-> <<>>, info |-> <<>>]))

(* before lld_rows_get() is called: no row, no info, no error *)
NoRows == [ret |-> FAIL, lld_rows |-> <<>>, info |-> <<>>, error |-> <<>>]

(***************************************************************************)
(* State.  The f_ variables hold one filter, loaded from the store and     *)
(* evaluated on one row: the configuration cache, the item_condition rows  *)
(* in the order the store returns them, the rule's formula column, the     *)
(* filter, the row, the macro-path table, the position, the result of the  *)
(* evaluation, the error text and the info lines of the row; f_value is a  *)
(* payload and f_rows what lld_rows_get() made of it.                      *)
(***************************************************************************)
VARIABLES f_cache, f_item_condition, f_formula, f_filter, f_row, f_paths, f_pc,
          f_res, f_error, f_info, f_value, f_rows

fvars == <<f_cache, f_item_condition, f_formula, f_filter, f_row, f_paths, f_pc,
           f_res, f_error, f_info, f_value, f_rows>>

(***************************************************************************)
(* State of the rule driver.                                               *)
(*   dc_locked    rule ids whose configuration cache item is locked        *)
(*   dc_items     state and error of each rule in the configuration cache  *)
(*   dc_config    the configuration cache as the filter loader reads it    *)
(*   db_items     the rule rows of the store (exists, state, evaltype,     *)
(*                formula, error)                                          *)
(*   db_item_condition, db_lld_macro_path  the rows of those tables        *)
(*   pc, loc      position and local variables of each worker's current    *)
(*                invocation of lld_process_discovery_rule()               *)
(*   runs         invocations started so far                               *)
(***************************************************************************)
VARIABLES dc_locked, dc_items, dc_config, db_items, db_item_condition,
          db_lld_macro_path, pc, loc, runs

dvars == <<dc_locked, dc_items, dc_config, db_items, db_item_condition,
           db_lld_macro_path, pc, loc, runs>>

vars == <<fvars, dvars>>

(***************************************************************************)
(* Inputs of the filter specifications.                                    *)
(***************************************************************************)
(* the discovery rules of the store *)
RuleIds == {1}

(* the rule whose filter is loaded *)
FilterRuleId == CHOOSE id \in RuleIds : TRUE

(* item_conditionid of the i-th row the store returns *)
CondIds == <<1, 2, 10, 11, 12>>

ConditionKinds ==
    {[value |-> <<"a">>, operator |-> CONDITION_OPERATOR_REGEXP],
     [value |-> <<"a">>, operator |-> CONDITION_OPERATOR_NOT_REGEXP],
     [value |-> <<"(">>, operator |-> CONDITION_OPERATOR_REGEXP]}

MatchOperands == {<<>>, <<"a">>, <<"(">>, <<"@", "g">>, <<"@", "x">>, UserMacro}

MatchKinds ==
    [value : MatchOperands,
     operator : {CONDITION_OPERATOR_REGEXP, CONDITION_OPERATOR_NOT_REGEXP}]

StoredConditions(n, kinds) ==
    {[i \in 1..n |-> [item_conditionid |-> CondIds[i], macro |-> m[i],
                      value |-> k[i].value, operator |-> k[i].operator]] :
        m \in [1..n -> LLDMacros], k \in [1..n -> kinds]}

RowValues(k) == IF k = "{#B}" THEN {<<"a">>} ELSE {<<"a">>, <<"b">>}

Rows == UNION {{r \in [K -> {<<"a">>, <<"b">>}] : \A k \in K : r[k] \in RowValues(k)} :
                K \in SUBSET RowKeys}

MacroPathTables == {<<>>, <<[lld_macro |-> "{#B}", path |-> "$.b"]>>}

SP == <<" ">>
AND == <<"a", "n", "d">>
OR == <<"o", "r">>
NOT == <<"n", "o", "t">>

ExprAndNot == condition_token(1) \o SP \o AND \o SP \o NOT \o SP \o condition_token(2)
ExprOr == condition_token(1) \o SP \o OR \o SP \o condition_token(10)
ExprTwice == condition_token(2) \o SP \o AND \o SP \o condition_token(2)
ExprBroken == condition_token(1) \o SP \o AND
ExprPair == condition_token(1) \o SP \o OR \o SP \o condition_token(2)

Expressions == {ExprAndNot, ExprOr, ExprTwice, ExprBroken}

FilterCache ==
    [items |-> {FilterRuleId},
     regexps |-> (<<"g">> :> {<<"a">>}),
     usermacro |-> <<"b">>]

(* the driver does not take part in the filter specifications *)
DriverUnused ==
    /\ dc_locked = {}
    /\ dc_items = <<>>
    /\ dc_config = FilterCache
    /\ db_items = <<>>
    /\ db_item_condition = <<>>
    /\ db_lld_macro_path = <<>>
    /\ pc = <<>>
    /\ loc = <<>>
    /\ runs = 0

InitFilterOf(evaltypes, expressions, conditions, rows, tables) ==
    /\ f_cache = FilterCache
    /\ f_item_condition \in conditions
    /\ f_formula \in expressions
    /\ \E evaltype \in evaltypes :
          f_filter = [lld_filter_init EXCEPT !.evaltype = evaltype,
                                             !.expression = f_formula]
    /\ f_row \in rows
    /\ f_paths \in tables
    /\ f_pc = "load"
    /\ f_res = [ret |-> FAIL, evaluated |-> <<>>, matches |-> <<>>, expression |-> <<>>]
    /\ f_error = <<>>
    /\ f_info = <<>>
    /\ f_value = NoPayload
    /\ f_rows = NoRows
    /\ DriverUnused

(* lld_filter_load(&filter, lld_ruleid, &error) *)
FilterLoad ==
    /\ f_pc = "load"
    /\ \E l \in lld_filter_load(f_filter, FilterRuleId, f_cache, f_item_condition) :
          /\ f_filter' = l.filter
          /\ f_error' = l.error
          /\ f_pc' = IF SUCCEED = l.ret THEN "evaluate" ELSE "failed"
    /\ UNCHANGED <<f_cache, f_item_condition, f_formula, f_row, f_paths, f_res,
                   f_info, f_value, f_rows>>
    /\ UNCHANGED dvars

(* one row of lld_rows_get():                                      *)
(*   lld_check_received_data_for_filter(filter, &jp_row, lld_macro_paths, info); *)
(*   filter_evaluate(filter, &jp_row, lld_macro_paths)             *)
FilterEvaluate ==
    /\ f_pc = "evaluate"
    /\ f_info' = f_info \o lld_check_received_data_for_filter(f_filter, f_row, f_paths)
    /\ f_res' = filter_evaluate(f_filter, f_row, f_paths)
    /\ f_pc' = "evaluated"
    /\ UNCHANGED <<f_cache, f_item_condition, f_formula, f_filter, f_row, f_paths,
                   f_error, f_value, f_rows>>
    /\ UNCHANGED dvars

NextFilter == FilterLoad \/ FilterEvaluate

(* the modes without an expression, on up to MaxConds conditions *)
InitFilter ==
    InitFilterOf({CONDITION_EVAL_TYPE_AND_OR, CONDITION_EVAL_TYPE_AND,
                  CONDITION_EVAL_TYPE_OR},
                 {<<>>},
                 UNION {StoredConditions(n, ConditionKinds) : n \in 0..MaxConds},
                 Rows, MacroPathTables)

SpecFilter == InitFilter /\ [][NextFilter]_vars

(* custom expressions on up to MaxConds conditions *)
InitExpression ==
    InitFilterOf({CONDITION_EVAL_TYPE_EXPRESSION}, Expressions,
                 UNION {StoredConditions(n, ConditionKinds) : n \in 0..MaxConds},
                 {r \in Rows : DOMAIN r \subseteq LLDMacros}, {<<>>})

SpecExpression == InitExpression /\ [][NextFilter]_vars

(* every pair of conditions, every operand, evaluated without short cut *)
InitMatch ==
    InitFilterOf({CONDITION_EVAL_TYPE_EXPRESSION}, {ExprPair},
                 StoredConditions(2, MatchKinds), Rows, MacroPathTables)

SpecMatch == InitMatch /\ [][NextFilter]_vars

(* what the user macro of an operand may resolve to *)
UserMacroValues == {<<>>, <<"b">>, <<"(">>, <<"@", "g">>, <<"@", "x">>}

LoadKinds == {k \in MatchKinds : k.operator = CONDITION_OPERATOR_REGEXP}

(* filters of fewer than MaxConds conditions over every stored operand,    *)
(* loaded under every value of the user macro                              *)
InitLoad ==
    /\ \E value \in UserMacroValues : f_cache = [FilterCache EXCEPT !.usermacro = value]
    /\ f_item_condition \in
          UNION {StoredConditions(n, LoadKinds) : n \in 0..(MaxConds - 1)}
    /\ f_formula = <<>>
    /\ \E evaltype \in {CONDITION_EVAL_TYPE_AND_OR, CONDITION_EVAL_TYPE_AND} :
          f_filter = [lld_filter_init EXCEPT !.evaltype = evaltype]
    /\ f_row \in {r \in Rows : DOMAIN r = {"{#A}"}}
    /\ f_paths = <<>>
    /\ f_pc = "load"
    /\ f_res = [ret |-> FAIL, evaluated |-> <<>>, matches |-> <<>>, expression |-> <<>>]
    /\ f_error = <<>>
    /\ f_info = <<>>
    /\ f_value = NoPayload
    /\ f_rows = NoRows
    /\ DriverUnused

SpecLoad == InitLoad /\ [][NextFilter]_vars

(* the elements a payload array is made of: rows on the LLD macros, and a  *)
(* value that is not an object                                             *)
Elements ==
    {Object(r) : r \in {q \in Rows : \/ DOMAIN q \subseteq {"{#A}"}
                                     \/ DOMAIN q = LLDMacros /\ q["{#A}"] = <<"a">>}}
       \cup {Scalar}

ElementLists == UNION {[1..n -> Elements] : n \in 0..MaxElems}

(* the payloads: text that does not parse, a scalar, an array, an object   *)
(* with an array under "data", with something else under "data", without   *)
(* "data"                                                                  *)
RowPayloads ==
    {NoPayload, [kind |-> "scalar", data |-> "none", elements |-> <<>>],
     [kind |-> "object", data |-> "none", elements |-> <<>>],
     [kind |-> "object", data |-> "other", elements |-> <<>>]}
       \cup {[kind |-> "array", data |-> "none", elements |-> e] : e \in ElementLists}
       \cup {[kind |-> "object", data |-> "array", elements |-> e] : e \in ElementLists}

(* lld_rows_get(value, &filter, &lld_rows, &lld_macro_paths, &info, &error) *)
RowsGet ==
    /\ f_pc = "evaluate"
    /\ f_rows' = lld_rows_get(f_value, f_filter, f_paths)
    /\ f_pc' = "extracted"
    /\ UNCHANGED <<f_cache, f_item_condition, f_formula, f_filter, f_row, f_paths,
                   f_res, f_error, f_info, f_value>>
    /\ UNCHANGED dvars

NextRows == FilterLoad \/ RowsGet

(* payloads of up to MaxElems elements under filters of fewer than         *)
(* MaxConds conditions                                                     *)
InitRows ==
    /\ f_cache = FilterCache
    /\ f_item_condition \in
          UNION {StoredConditions(n, ConditionKinds) : n \in 0..(MaxConds - 1)}
    /\ f_formula = <<>>
    /\ f_filter = [lld_filter_init EXCEPT !.evaltype = CONDITION_EVAL_TYPE_AND_OR]
    /\ f_row = <<>>
    /\ f_paths = <<>>
    /\ f_pc = "load"
    /\ f_res = [ret |-> FAIL, evaluated |-> <<>>, matches |-> <<>>, expression |-> <<>>]
    /\ f_error = <<>>
    /\ f_info = <<>>
    /\ f_value \in RowPayloads
    /\ f_rows = NoRows
    /\ DriverUnused

SpecRows == InitRows /\ [][NextRows]_vars

(***************************************************************************)
(* The rule driver lld_process_discovery_rule().                           *)
(***************************************************************************)
ITEM_STATE_NORMAL == "NORMAL"
ITEM_STATE_NOTSUPPORTED == "NOTSUPPORTED"
ZBX_FLAGS_ITEM_DIFF_UPDATE_STATE == "UPDATE_STATE"
ZBX_FLAGS_ITEM_DIFF_UPDATE_ERROR == "UPDATE_ERROR"

Workers == {"w1", "w2"}

(* char *p: NULL or a text *)
NullStr == [null |-> TRUE, text |-> <<>>]
Str(text) == [null |-> FALSE, text |-> text]

(* DCconfig_lock_lld_rule(): [ret, locked] *)
DCconfig_lock_lld_rule(locked, lld_ruleid) ==
    IF lld_ruleid \in locked
    THEN [ret |-> FAIL, locked |-> locked]
    ELSE [ret |-> SUCCEED, locked |-> locked \cup {lld_ruleid}]

DCconfig_unlock_lld_rule(locked, lld_ruleid) == locked \ {lld_ruleid}

(* DCconfig_items_apply_changes() for one diff *)
DCconfig_items_apply_changes(items, diff) ==
    [items EXCEPT ![diff.itemid] =
        [state |-> IF ZBX_FLAGS_ITEM_DIFF_UPDATE_STATE \in diff.flags
                   THEN diff.state ELSE @.state,
         error |-> IF ZBX_FLAGS_ITEM_DIFF_UPDATE_ERROR \in diff.flags
                   THEN diff.error ELSE @.error]]

(* "update items set [state=..][,error=..] where itemid=.." *)
DBexecute(items, sql, lld_ruleid) ==
    [items EXCEPT ![lld_ruleid] =
        [@ EXCEPT !.state = IF \E c \in 1..Len(sql) : sql[c].column = "state"
                            THEN ITEM_STATE_NORMAL ELSE @,
                  !.error = IF \E c \in 1..Len(sql) : sql[c].column = "error"
                            THEN sql[CHOOSE c \in 1..Len(sql) : sql[c].column = "error"].text
                            ELSE @]]

(* the locals of one invocation at its start *)
locals(lld_ruleid, value) ==
    [lld_ruleid |-> lld_ruleid, value |-> value, locked |-> FALSE,
     state |-> ITEM_STATE_NORMAL, db_error |-> NullStr, error |-> NullStr,
     info |-> <<>>, filter |-> lld_filter_init, lld_macro_paths |-> <<>>,
     lld_rows |-> <<>>, sql |-> <<>>,
     lld_rule_diff |-> [itemid |-> lld_ruleid, flags |-> {},
                        state |-> ITEM_STATE_NORMAL, error |-> <<>>],
     calls |-> <<>>]

(* where the code goes after each call, by its result *)
after_lock_ignored(ret) == "select"

after_lock_unlocks(ret) == IF FAIL = ret THEN "clean" ELSE "select"

after_lock_loads_anyway(ret) == IF FAIL = ret THEN "filter_load" ELSE "select"

(* if (FAIL == DCconfig_lock_lld_rule(lld_ruleid)) goto out; *)
after_lock(ret) == IF FAIL = ret THEN "out" ELSE "select"

after_select_loads_anyway(row_found) == "filter_load"

after_select_returns(row_found) == IF ~row_found THEN "out" ELSE "filter_load"

(* if (NULL == row) goto clean; *)
after_select(row_found) == IF ~row_found THEN "clean" ELSE "filter_load"

after_load_continues(ret, next) == next

(* if (SUCCEED != lld_filter_load(...)) goto error; and the like *)
after_load(ret, next) == IF SUCCEED # ret THEN "error" ELSE next

after_update_goes_on(ret, next) == next

after_update_consolidates(ret, next) == IF SUCCEED # ret THEN "error" ELSE next

(* if (SUCCEED != lld_update_items(...)) goto clean; and the like *)
after_update(ret, next) == IF SUCCEED # ret THEN "clean" ELSE next

became_supported_never(state) == FALSE

became_supported_when_normal(state) == ITEM_STATE_NORMAL = state

became_supported_always(state) == TRUE

(* if (ITEM_STATE_NOTSUPPORTED == state) *)
became_supported(state) == ITEM_STATE_NOTSUPPORTED = state

error_differs_from_empty(error, db_error) == ~error.null /\ error.text # <<>>

error_differs_whenever_set(error, db_error) == ~error.null

error_differs_never(error, db_error) == FALSE

(* if (NULL != error && 0 != strcmp(error, db_error)) *)
error_differs(error, db_error) == ~error.null /\ error.text # db_error.text

diff_flags_set_always(flags) == TRUE

(* if (ZBX_FLAGS_ITEM_DIFF_UNSET != lld_rule_diff.flags) *)
diff_flags_set(flags) == flags # {}

(* mutant: the info lines are put before the error text *)
error_with_info_first(error, info) ==
    IF info # <<>> THEN Str(info \o error.text) ELSE error

(* if (NULL != info) error = zbx_strdcat(error, info); *)
error_with_info(error, info) ==
    IF info # <<>> THEN Str(error.text \o info) ELSE error

Call(w, names) == [loc[w] EXCEPT !.calls = @ \o names]

(***************************************************************************)
(* Inputs of the driver: payloads, and what the store and the              *)
(* configuration cache hold for the rule.                                  *)
(***************************************************************************)
PayloadArray ==
    [kind |-> "array", data |-> "none",
     elements |-> <<Object("{#A}" :> <<"a">>), Scalar,
                    Object(("{#A}" :> <<"b">>) @@ ("b" :> <<"a">>))>>]
PayloadLegacy ==
    [kind |-> "object", data |-> "array",
     elements |-> <<Object(("{#A}" :> <<"a">>) @@ ("{#B}" :> <<"a">>))>>]
PayloadOther == [kind |-> "object", data |-> "none", elements |-> <<>>]

Payloads == {PayloadArray, PayloadLegacy, PayloadOther, NoPayload}

Condition(id, macro, value, operator) ==
    [item_conditionid |-> id, macro |-> macro, value |-> value, operator |-> operator]

DriverCache(items) ==
    [items |-> items, regexps |-> (<<"g">> :> {<<"a">>}), usermacro |-> <<"b">>]

Configurations ==
    {[evaltype |-> CONDITION_EVAL_TYPE_AND_OR, formula |-> <<>>,
      item_condition |-> <<Condition(1, "{#A}", <<"a">>, CONDITION_OPERATOR_REGEXP)>>,
      lld_macro_path |-> <<>>, cache |-> DriverCache(RuleIds)],
     [evaltype |-> CONDITION_EVAL_TYPE_AND_OR, formula |-> <<>>,
      item_condition |-> <<Condition(1, "{#B}", <<"a">>, CONDITION_OPERATOR_REGEXP),
                           Condition(2, "{#A}", <<"@", "g">>, CONDITION_OPERATOR_NOT_REGEXP)>>,
      lld_macro_path |-> <<[lld_macro |-> "{#B}", path |-> "$.b"]>>,
      cache |-> DriverCache(RuleIds)],
     [evaltype |-> CONDITION_EVAL_TYPE_EXPRESSION, formula |-> ExprAndNot,
      item_condition |-> <<Condition(1, "{#A}", <<"a">>, CONDITION_OPERATOR_REGEXP),
                           Condition(2, "{#B}", UserMacro, CONDITION_OPERATOR_REGEXP)>>,
      lld_macro_path |-> <<>>, cache |-> DriverCache(RuleIds)],
     [evaltype |-> CONDITION_EVAL_TYPE_AND_OR, formula |-> <<>>,
      item_condition |-> <<Condition(1, "{#A}", <<"@", "x">>, CONDITION_OPERATOR_REGEXP)>>,
      lld_macro_path |-> <<>>, cache |-> DriverCache(RuleIds)],
     [evaltype |-> CONDITION_EVAL_TYPE_AND_OR, formula |-> <<>>,
      item_condition |-> <<>>,
      lld_macro_path |-> <<[lld_macro |-> "{#A}", path |-> "$["]>>,
      cache |-> DriverCache(RuleIds)],
     [evaltype |-> CONDITION_EVAL_TYPE_AND_OR, formula |-> <<>>,
      item_condition |-> <<>>,
      lld_macro_path |-> <<>>, cache |-> DriverCache({})]}

(* the error column: empty, or what an earlier run left there *)
StoredErrors == {<<>>, <<InfoNoValuePath("{#B}", "$.b")>>}

InitOf(configurations, states, errors) ==
    /\ \E c \in configurations :
       \E exists \in BOOLEAN :
       \E state \in states :
       \E error \in errors :
          /\ dc_config = c.cache
          /\ db_item_condition = c.item_condition
          /\ db_lld_macro_path = c.lld_macro_path
          /\ db_items = [id \in RuleIds |->
                           [exists |-> exists, state |-> state, evaltype |-> c.evaltype,
                            formula |-> c.formula, error |-> error]]
          /\ dc_items = [id \in RuleIds |-> [state |-> state, error |-> error]]
    /\ dc_locked = {}
    /\ pc = [w \in Workers |-> "idle"]
    /\ loc = [w \in Workers |-> locals(0, NoPayload)]
    /\ runs = 0
    /\ f_cache = FilterCache
    /\ f_item_condition = <<>>
    /\ f_formula = <<>>
    /\ f_filter = lld_filter_init
    /\ f_row = <<>>
    /\ f_paths = <<>>
    /\ f_pc = "unused"
    /\ f_res = [ret |-> FAIL, evaluated |-> <<>>, matches |-> <<>>, expression |-> <<>>]
    /\ f_error = <<>>
    /\ f_info = <<>>
    /\ f_value = NoPayload
    /\ f_rows = NoRows

Init == InitOf(Configurations, {ITEM_STATE_NORMAL, ITEM_STATE_NOTSUPPORTED}, StoredErrors)

(* the rule as the exit paths need it: one configuration for each way the  *)
(* loading can end, the rule supported and without a stored error          *)
InitExits ==
    InitOf({c \in Configurations : Len(c.item_condition) <= 1},
           {ITEM_STATE_NORMAL}, {<<>>})

(* a worker calls lld_process_discovery_rule(lld_ruleid, value, ts) *)
Invoke(w) ==
    /\ pc[w] = "idle"
    /\ runs < MaxRuns
    /\ \E lld_ruleid \in RuleIds : \E value \in Payloads :
          loc' = [loc EXCEPT ![w] = locals(lld_ruleid, value)]
    /\ pc' = [pc EXCEPT ![w] = "lock"]
    /\ runs' = runs + 1
    /\ UNCHANGED <<dc_locked, dc_items, dc_config, db_items, db_item_condition,
                   db_lld_macro_path>>
    /\ UNCHANGED fvars

Lock(w) ==
    /\ pc[w] = "lock"
    /\ LET l == DCconfig_lock_lld_rule(dc_locked, loc[w].lld_ruleid)
       IN  /\ dc_locked' = l.locked
           /\ loc' = [loc EXCEPT ![w].locked = (SUCCEED = l.ret)]
           /\ pc' = [pc EXCEPT ![w] = after_lock(l.ret)]
    /\ UNCHANGED <<dc_items, dc_config, db_items, db_item_condition,
                   db_lld_macro_path, runs>>
    /\ UNCHANGED fvars

(* select hostid,key_,state,evaltype,formula,error,lifetime from items *)
Select(w) ==
    /\ pc[w] = "select"
    /\ LET row == db_items[loc[w].lld_ruleid]
           called == Call(w, <<"DBselect items">>)
       IN  /\ loc' = [loc EXCEPT ![w] =
                        IF row.exists
                        THEN [called EXCEPT
                                !.state = row.state,
                                !.filter = [@ EXCEPT !.evaltype = row.evaltype,
                                                     !.expression = row.formula],
                                !.db_error = Str(row.error)]
                        ELSE called]
           /\ pc' = [pc EXCEPT ![w] = after_select(row.exists)]
    /\ UNCHANGED <<dc_locked, dc_items, dc_config, db_items, db_item_condition,
                   db_lld_macro_path, runs>>
    /\ UNCHANGED fvars

LoadFilter(w) ==
    /\ pc[w] = "filter_load"
    /\ \E l \in lld_filter_load(loc[w].filter, loc[w].lld_ruleid, dc_config,
                                db_item_condition) :
          /\ loc' = [loc EXCEPT ![w] =
                       [Call(w, <<"lld_filter_load">>) EXCEPT
                          !.filter = l.filter,
                          !.error = IF SUCCEED # l.ret THEN Str(l.error) ELSE @]]
          /\ pc' = [pc EXCEPT ![w] = after_load(l.ret, "macro_paths")]
    /\ UNCHANGED <<dc_locked, dc_items, dc_config, db_items, db_item_condition,
                   db_lld_macro_path, runs>>
    /\ UNCHANGED fvars

LoadMacroPaths(w) ==
    /\ pc[w] = "macro_paths"
    /\ \E l \in {lld_macro_paths_get(db_lld_macro_path)} :
           /\ loc' = [loc EXCEPT ![w] =
                        [Call(w, <<"lld_macro_paths_get">>) EXCEPT
                           !.lld_macro_paths = l.lld_macro_paths,
                           !.error = IF SUCCEED # l.ret THEN Str(l.error) ELSE @]]
           /\ pc' = [pc EXCEPT ![w] = after_load(l.ret, "rows_get")]
    /\ UNCHANGED <<dc_locked, dc_items, dc_config, db_items, db_item_condition,
                   db_lld_macro_path, runs>>
    /\ UNCHANGED fvars

(* lld_rows_get(), then error = zbx_strdup(error, "") *)
GetRows(w) ==
    /\ pc[w] = "rows_get"
    /\ \E l \in {lld_rows_get(loc[w].value, loc[w].filter, loc[w].lld_macro_paths)} :
           /\ loc' = [loc EXCEPT ![w] =
                        [Call(w, <<"lld_rows_get">>) EXCEPT
                           !.lld_rows = l.lld_rows,
                           !.info = l.info,
                           !.error = IF SUCCEED # l.ret THEN Str(l.error) ELSE Str(<<>>)]]
           /\ pc' = [pc EXCEPT ![w] = after_load(l.ret, "update_items")]
    /\ UNCHANGED <<dc_locked, dc_items, dc_config, db_items, db_item_condition,
                   db_lld_macro_path, runs>>
    /\ UNCHANGED fvars

(* a downstream stage: it returns SUCCEED, having appended what it has to  *)
(* report to the error text, or FAIL when the parent host was removed      *)
Downstream(w, stage, also, texts, may_fail, next) ==
    /\ pc[w] = stage
    /\ \E ret \in (IF may_fail THEN {SUCCEED, FAIL} ELSE {SUCCEED}) :
       \E text \in (IF ret = SUCCEED THEN texts ELSE {<<>>}) :
          /\ loc' = [loc EXCEPT ![w] =
                       [Call(w, IF SUCCEED = ret THEN also ELSE <<also[1]>>) EXCEPT
                          !.error = Str(@.text \o text)]]
          /\ pc' = [pc EXCEPT ![w] = after_update(ret, next)]
    /\ UNCHANGED <<dc_locked, dc_items, dc_config, db_items, db_item_condition,
                   db_lld_macro_path, runs>>

ErrItems == <<"Cannot create item">>
ErrHosts == <<"Cannot create host">>

(* lld_update_items(), then lld_item_links_sort() *)
UpdateItems(w) ==
    Downstream(w, "update_items", <<"lld_update_items", "lld_item_links_sort">>,
               {<<>>, <<ErrItems>>}, TRUE, "update_triggers")
    /\ UNCHANGED fvars

UpdateTriggers(w) ==
    Downstream(w, "update_triggers", <<"lld_update_triggers">>, {<<>>}, TRUE,
               "update_graphs")
    /\ UNCHANGED fvars

UpdateGraphs(w) ==
    Downstream(w, "update_graphs", <<"lld_update_graphs">>, {<<>>}, TRUE,
               "update_hosts")
    /\ UNCHANGED fvars

UpdateHosts(w) ==
    Downstream(w, "update_hosts", <<"lld_update_hosts">>, {<<>>, <<ErrHosts>>}, FALSE,
               "transition")
    /\ UNCHANGED fvars

(* if (ITEM_STATE_NOTSUPPORTED == state) { event; sql; diff }               *)
(* if (NULL != info) error = zbx_strdcat(error, info)                      *)
Transition(w) ==
    /\ pc[w] = "transition"
    /\ LET l == loc[w]
           became == IF became_supported(l.state)
                     THEN [Call(w, <<"zbx_add_event", "zbx_process_events",
                                     "zbx_clean_events">>) EXCEPT
                             !.sql = Append(@, [column |-> "state", text |-> <<>>]),
                             !.lld_rule_diff =
                                 [@ EXCEPT !.state = ITEM_STATE_NORMAL,
                                           !.flags = @ \cup {ZBX_FLAGS_ITEM_DIFF_UPDATE_STATE}]]
                     ELSE l
       IN  loc' = [loc EXCEPT ![w] =
                     [became EXCEPT !.error = error_with_info(@, l.info)]]
    /\ pc' = [pc EXCEPT ![w] = "error"]
    /\ UNCHANGED <<dc_locked, dc_items, dc_config, db_items, db_item_condition,
                   db_lld_macro_path, runs>>
    /\ UNCHANGED fvars

(* error: if (NULL != error && 0 != strcmp(error, db_error)) { sql; diff } *)
Consolidate(w) ==
    /\ pc[w] = "error"
    /\ LET l == loc[w]
       IN  loc' = [loc EXCEPT ![w] =
                     IF error_differs(l.error, l.db_error)
                     THEN [l EXCEPT
                             !.sql = Append(@, [column |-> "error", text |-> l.error.text]),
                             !.lld_rule_diff =
                                 [@ EXCEPT !.error = l.error.text,
                                           !.flags = @ \cup {ZBX_FLAGS_ITEM_DIFF_UPDATE_ERROR}]]
                     ELSE l]
    /\ pc' = [pc EXCEPT ![w] = "persist"]
    /\ UNCHANGED <<dc_locked, dc_items, dc_config, db_items, db_item_condition,
                   db_lld_macro_path, runs>>
    /\ UNCHANGED fvars

(* if (sql_start == sql_continue) DBexecute("%s", sql) *)
Persist(w) ==
    /\ pc[w] = "persist"
    /\ IF loc[w].sql # <<>>
       THEN /\ db_items' = DBexecute(db_items, loc[w].sql, loc[w].lld_ruleid)
            /\ loc' = [loc EXCEPT ![w] = Call(w, <<"DBexecute">>)]
       ELSE UNCHANGED <<db_items, loc>>
    /\ pc' = [pc EXCEPT ![w] = "apply"]
    /\ UNCHANGED <<dc_locked, dc_items, dc_config, db_item_condition,
                   db_lld_macro_path, runs>>
    /\ UNCHANGED fvars

(* if (ZBX_FLAGS_ITEM_DIFF_UNSET != lld_rule_diff.flags) apply the diff *)
Apply(w) ==
    /\ pc[w] = "apply"
    /\ IF diff_flags_set(loc[w].lld_rule_diff.flags)
       THEN /\ dc_items' = DCconfig_items_apply_changes(dc_items, loc[w].lld_rule_diff)
            /\ loc' = [loc EXCEPT ![w] = Call(w, <<"DCconfig_items_apply_changes">>)]
       ELSE UNCHANGED <<dc_items, loc>>
    /\ pc' = [pc EXCEPT ![w] = "clean"]
    /\ UNCHANGED <<dc_locked, dc_config, db_items, db_item_condition,
                   db_lld_macro_path, runs>>
    /\ UNCHANGED fvars

(* clean: DCconfig_unlock_lld_rule(lld_ruleid); free everything *)
Unlock(w) ==
    /\ pc[w] = "clean"
    /\ dc_locked' = DCconfig_unlock_lld_rule(dc_locked, loc[w].lld_ruleid)
    /\ loc' = [loc EXCEPT ![w] = Call(w, <<"DCconfig_unlock_lld_rule">>)]
    /\ pc' = [pc EXCEPT ![w] = "out"]
    /\ UNCHANGED <<dc_items, dc_config, db_items, db_item_condition,
                   db_lld_macro_path, runs>>
    /\ UNCHANGED fvars

(* out: the call returns and its locals are gone *)
Return(w) ==
    /\ pc[w] = "out"
    /\ pc' = [pc EXCEPT ![w] = "idle"]
    /\ loc' = [loc EXCEPT ![w] = locals(0, NoPayload)]
    /\ UNCHANGED <<dc_locked, dc_items, dc_config, db_items, db_item_condition,
                   db_lld_macro_path, runs>>
    /\ UNCHANGED fvars

(* the steps of a call once it has been made *)
Run(w) ==
    \/ Lock(w) \/ Select(w) \/ LoadFilter(w) \/ LoadMacroPaths(w) \/ GetRows(w)
    \/ UpdateItems(w) \/ UpdateTriggers(w) \/ UpdateGraphs(w) \/ UpdateHosts(w)
    \/ Transition(w) \/ Consolidate(w) \/ Persist(w) \/ Apply(w) \/ Unlock(w)
    \/ Return(w)

Next == \E w \in Workers : Invoke(w) \/ Run(w)

Spec == Init /\ [][Next]_vars

(* a call that has been made runs to its end: every collaborator returns *)
FairSpec == InitExits /\ [][Next]_vars /\ \A w \in Workers : WF_vars(Run(w))

(***************************************************************************)
(* Properties of the rule lock.                                            *)
(***************************************************************************)
(* the labels between the lock attempt and the return *)
Steps ==
    {"select", "filter_load", "macro_paths", "rows_get", "update_items",
     "update_triggers", "update_graphs", "update_hosts", "transition", "error",
     "persist", "apply", "clean"}

(* w is between its successful lock acquisition and its unlock *)
Inside(w) == pc[w] \in Steps /\ loc[w].locked

(* w's invocation found the lock held *)
Refused(w) == pc[w] = "out" /\ ~loc[w].locked

CallCount(calls, name) == Cardinality({i \in 1..Len(calls) : calls[i] = name})

NoOp(w) ==
    /\ loc[w].calls = <<>>
    /\ loc[w].sql = <<>>
    /\ loc[w].lld_rule_diff.flags = {}

(* the step in which w finds the lock held *)
Refusal(w) == pc[w] = "lock" /\ pc'[w] = "out"

(* C1: of two overlapping invocations on one rule id exactly one performs  *)
(* step 2 onward: whoever is past the lock attempt acquired the lock and   *)
(* no two are past it at once; the invocation that finds the lock held     *)
(* finds another invocation holding it, changes neither the lock, the      *)
(* store nor the configuration cache, and returns having read no rule      *)
(* record, loaded no filter, called no downstream stage, emitted no event, *)
(* issued no update statement and applied no configuration-cache diff.     *)
C1_LockedOutIsNoOp ==
    /\ [](\A w \in Workers :
            /\ pc[w] \in Steps => Inside(w)
            /\ Refused(w) => NoOp(w)
            /\ \A v \in Workers \ {w} :
                  pc[w] \in Steps /\ pc[v] \in Steps
                     => loc[w].lld_ruleid # loc[v].lld_ruleid)
    /\ [][\A w \in Workers :
            Refusal(w) =>
               /\ \E v \in Workers \ {w} :
                     Inside(v) /\ loc[v].lld_ruleid = loc[w].lld_ruleid
               /\ UNCHANGED <<dc_locked, dc_items, dc_config, db_items,
                              db_item_condition, db_lld_macro_path>>
               /\ NoOp(w)']_vars

(* one invocation is refused while the other has loaded the rule *)
C1_Witness ==
    \E w \in Workers : \E v \in Workers \ {w} :
       /\ pc[w] = "out" /\ Refused(w) /\ NoOp(w)
       /\ Inside(v) /\ loc[v].lld_ruleid = loc[w].lld_ruleid
       /\ CallCount(loc[v].calls, "lld_filter_load") = 1

(* C2: in every reachable state at most one invocation per rule id is      *)
(* between its successful lock acquisition and its unlock, and the lock of *)
(* that invocation is held; an invocation whose lock attempt failed never  *)
(* calls unlock.                                                           *)
C2_OneInsideAndRefusedNeverUnlocks ==
    \A w \in Workers :
       /\ Inside(w) => loc[w].lld_ruleid \in dc_locked
       /\ \A v \in Workers \ {w} :
             Inside(w) /\ Inside(v) => loc[w].lld_ruleid # loc[v].lld_ruleid
       /\ ~loc[w].locked => CallCount(loc[w].calls, "DCconfig_unlock_lld_rule") = 0

(* the refused invocation is about to return without an unlock and the     *)
(* running one still holds the lock at its last step                       *)
C2_Witness ==
    \E w \in Workers : \E v \in Workers \ {w} :
       /\ Refused(w) /\ CallCount(loc[w].calls, "DCconfig_unlock_lld_rule") = 0
       /\ pc[v] = "clean" /\ Inside(v) /\ loc[v].lld_ruleid = loc[w].lld_ruleid
       /\ loc[v].lld_ruleid \in dc_locked

(* w's invocation acquired the lock and is about to return *)
Leaving(w) == pc[w] = "out" /\ loc[w].locked

Unlocks(w) == CallCount(loc[w].calls, "DCconfig_unlock_lld_rule")

(* C3: an invocation that acquired the rule lock has released it exactly   *)
(* once when it returns, whichever way it leaves, and never more than      *)
(* once; and when every call made runs on, a held rule lock is eventually  *)
(* free again.                                                             *)
C3_UnlockedOnceOnEveryExit ==
    /\ [](\A w \in Workers :
            /\ Unlocks(w) <= 1
            /\ Inside(w) => Unlocks(w) = 0
            /\ Leaving(w) =>
                  /\ Unlocks(w) = 1
                  /\ loc[w].calls[Len(loc[w].calls)] = "DCconfig_unlock_lld_rule")
    /\ \A id \in RuleIds : (id \in dc_locked) ~> (id \notin dc_locked)

(* one invocation left because the payload could not be read, the other    *)
(* because a downstream stage signalled that the parent host was removed;  *)
(* both unlocked                                                           *)
C3_Witness ==
    \E w \in Workers : \E v \in Workers \ {w} :
       /\ Leaving(w) /\ Unlocks(w) = 1
       /\ CallCount(loc[w].calls, "lld_rows_get") = 1
       /\ CallCount(loc[w].calls, "lld_update_items") = 0
       /\ Leaving(v) /\ Unlocks(v) = 1
       /\ CallCount(loc[v].calls, "lld_update_triggers") = 1
       /\ CallCount(loc[v].calls, "lld_update_graphs") = 0
       /\ CallCount(loc[v].calls, "DBexecute") = 0

(***************************************************************************)
(* Properties of the filter evaluation.                                    *)
(***************************************************************************)
Evaluated(evaltype) == f_pc = "evaluated" /\ f_filter.evaltype = evaltype

(* the match result of the i-th condition the store returned *)
StoredMatch(i) ==
    filter_condition_match(f_row, f_paths, load_condition(f_cache, f_item_condition[i]))

StoredIndices == 1..Len(f_item_condition)

(* the conditions matched before the walk stopped: 1..n *)
FirstWhere(P(_), n) ==
    IF \E i \in 1..n : P(i) THEN CHOOSE i \in 1..n : P(i) /\ \A j \in 1..(i - 1) : ~P(j)
    ELSE n

Indices(n) == [i \in 1..n |-> i]

(* C4: under AND_OR the filter passes a row iff every macro that occurs in *)
(* the stored conditions has at least one matching condition, in whatever  *)
(* order the store returned the conditions and the sort left them.         *)
C4_AndOrIsAndOfGroupOr ==
    Evaluated(CONDITION_EVAL_TYPE_AND_OR) =>
        ((f_res.ret = SUCCEED) <=>
            \A m \in {f_item_condition[i].macro : i \in StoredIndices} :
                \E i \in StoredIndices :
                    f_item_condition[i].macro = m /\ StoredMatch(i) = SUCCEED)

(* a pass of three conditions the store returned out of macro order, with  *)
(* a failing first condition in a group that a later condition rescues     *)
C4_Witness ==
    /\ Evaluated(CONDITION_EVAL_TYPE_AND_OR)
    /\ Len(f_item_condition) = 3
    /\ f_item_condition[1].macro = "{#B}"
    /\ f_item_condition[2].macro = "{#A}"
    /\ f_item_condition[3].macro = "{#B}"
    /\ StoredMatch(1) = FAIL
    /\ StoredMatch(3) = SUCCEED
    /\ f_res.ret = SUCCEED

OrShortCut ==
    LET n == Len(f_filter.conditions)
        k == FirstWhere(LAMBDA i : filter_condition_match(f_row, f_paths,
                                       f_filter.conditions[i]) = SUCCEED, n)
    IN  f_res.evaluated = Indices(k)

(* C5 as stated: under OR the filter passes iff at least one condition     *)
(* matches, also for the empty list, and nothing after the first match is  *)
(* evaluated.                                                              *)
C5_OrAsStated ==
    Evaluated(CONDITION_EVAL_TYPE_OR) =>
        /\ (f_res.ret = SUCCEED) <=> (\E i \in StoredIndices : StoredMatch(i) = SUCCEED)
        /\ OrShortCut

(* C5 amended: under OR the filter passes iff at least one condition       *)
(* matches or there is no condition at all, and nothing after the first    *)
(* matching condition is evaluated.                                        *)
C5_OrPassIffAnyOrEmpty ==
    Evaluated(CONDITION_EVAL_TYPE_OR) =>
        /\ (f_res.ret = SUCCEED) <=>
              (f_item_condition = <<>> \/ \E i \in StoredIndices : StoredMatch(i) = SUCCEED)
        /\ OrShortCut

(* the first of three conditions fails, the second matches, the third is   *)
(* never evaluated                                                         *)
C5_Witness ==
    /\ Evaluated(CONDITION_EVAL_TYPE_OR)
    /\ Len(f_item_condition) = 3
    /\ StoredMatch(1) = FAIL
    /\ StoredMatch(2) = SUCCEED
    /\ f_res.ret = SUCCEED
    /\ f_res.evaluated = <<1, 2>>

(* C6: under AND the filter passes iff every condition matches (the empty  *)
(* list passes), and nothing after the first failing condition is          *)
(* evaluated.                                                              *)
C6_AndPassIffAll ==
    Evaluated(CONDITION_EVAL_TYPE_AND) =>
        /\ (f_res.ret = SUCCEED) <=> (\A i \in StoredIndices : StoredMatch(i) = SUCCEED)
        /\ LET n == Len(f_filter.conditions)
               k == FirstWhere(LAMBDA i : filter_condition_match(f_row, f_paths,
                                              f_filter.conditions[i]) # SUCCEED, n)
           IN  f_res.evaluated = Indices(k)

(* the first of three conditions matches, the second fails, the third is   *)
(* never evaluated                                                         *)
C6_Witness ==
    /\ Evaluated(CONDITION_EVAL_TYPE_AND)
    /\ Len(f_item_condition) = 3
    /\ StoredMatch(1) = SUCCEED
    /\ StoredMatch(2) = FAIL
    /\ f_res.ret = FAIL
    /\ f_res.evaluated = <<1, 2>>

(***************************************************************************)
(* Properties of the custom expression.                                    *)
(***************************************************************************)
Digit(ret) == IF ret = SUCCEED THEN "1" ELSE "0"

(* the token of loaded condition i stands at position p of the expression *)
TokenAt(i, p) ==
    LET id == condition_token(f_filter.conditions[i].id)
    IN  /\ p + Len(id) - 1 <= Len(f_filter.expression)
        /\ SubSeq(f_filter.expression, p, p + Len(id) - 1) = id

LoadedIndices == 1..Len(f_filter.conditions)

Positions == 1..Len(f_filter.expression)

(* C7 as stated: under EXPRESSION an error of the evaluator makes the      *)
(* filter fail the row, whatever the conditions' match results.            *)
C7_EvaluatorErrorFails ==
    (Evaluated(CONDITION_EVAL_TYPE_EXPRESSION) /\ evaluate(f_res.expression).ret # SUCCEED)
        => f_res.ret = FAIL

(* C8: under EXPRESSION every occurrence of every condition's token {ID}   *)
(* is replaced by '1' when the condition matched the row and by '0' when   *)
(* it did not, and when the evaluator succeeds the filter passes iff the   *)
(* evaluated number is not 0.                                              *)
C8_TokensBecomeMatchDigits ==
    Evaluated(CONDITION_EVAL_TYPE_EXPRESSION) =>
        /\ f_res.evaluated = Indices(Len(f_filter.conditions))
        /\ \A i \in LoadedIndices : \A p \in Positions :
              TokenAt(i, p) =>
                  /\ Len(f_res.expression) >= p
                  /\ f_res.expression[p] = Digit(f_res.matches[i])
                  /\ f_res.matches[i] = StoredMatch(i)
        /\ LET ev == evaluate(f_res.expression)
           IN  ev.ret = SUCCEED => ((f_res.ret = SUCCEED) <=> (ev.value # 0))

(* "{1} and not {2}" with condition 1 matching and condition 2 not         *)
(* matching becomes "1   and not 0  " and passes                           *)
C8_Witness ==
    /\ Evaluated(CONDITION_EVAL_TYPE_EXPRESSION)
    /\ f_filter.expression = ExprAndNot
    /\ Len(f_filter.conditions) >= 2
    /\ f_res.matches[1] = SUCCEED
    /\ f_res.matches[2] = FAIL
    /\ f_res.expression = <<"1", " ", " ", " ", "a", "n", "d", " ", "n", "o", "t", " ",
                            "0", " ", " ">>
    /\ f_res.ret = SUCCEED

(* position p lies inside an occurrence of a loaded condition's token *)
InToken(p) ==
    \E i \in LoadedIndices : \E q \in Positions :
        TokenAt(i, q) /\ q <= p /\ p < q + Len(condition_token(f_filter.conditions[i].id))

(* C9: the substitution of {ID} tokens keeps the length of the expression  *)
(* after any number of conditions, changes no character outside a replaced *)
(* token, turns each replaced token into one digit followed by spaces, and *)
(* leaves the filter's own expression as it was loaded.                    *)
C9_SubstitutionKeepsLength ==
    Evaluated(CONDITION_EVAL_TYPE_EXPRESSION) =>
        /\ \A n \in 0..Len(f_filter.conditions) :
              Len(substituted(f_filter, f_row, f_paths, n)) = Len(f_filter.expression)
        /\ f_res.expression = substituted(f_filter, f_row, f_paths, Len(f_filter.conditions))
        /\ Len(f_res.expression) = Len(f_filter.expression)
        /\ \A p \in Positions : ~InToken(p) => f_res.expression[p] = f_filter.expression[p]
        /\ \A i \in LoadedIndices : \A q \in Positions :
              TokenAt(i, q) =>
                  /\ f_res.expression[q] \in {"0", "1"}
                  /\ \A k \in (q + 1)..(q + Len(condition_token(f_filter.conditions[i].id)) - 1) :
                        f_res.expression[k] = " "
        /\ f_filter.expression = f_formula

(* "{1} or {10}" with three conditions: tokens of three and of four        *)
(* characters are replaced and the text between them is kept               *)
C9_Witness ==
    /\ Evaluated(CONDITION_EVAL_TYPE_EXPRESSION)
    /\ f_filter.expression = ExprOr
    /\ Len(f_filter.conditions) = 3
    /\ f_res.expression = <<"0", " ", " ", " ", "o", "r", " ", "1", " ", " ", " ">>
    /\ f_filter.expression = f_formula

(***************************************************************************)
(* Properties of one condition.                                            *)
(***************************************************************************)
Resolves(macro) == zbx_lld_macro_value_by_name(f_row, f_paths, macro).ret = SUCCEED

(* conditions i and j are (m, r, REGEXP) and (m, r, NOT_REGEXP) *)
OppositePair(i, j) ==
    /\ f_filter.conditions[i].macro = f_filter.conditions[j].macro
    /\ f_filter.conditions[i].regexp = f_filter.conditions[j].regexp
    /\ f_filter.conditions[i].op = CONDITION_OPERATOR_REGEXP
    /\ f_filter.conditions[j].op = CONDITION_OPERATOR_NOT_REGEXP

EngineResult(i) ==
    regexp_match_ex(f_filter.conditions[i].regexps,
        zbx_lld_macro_value_by_name(f_row, f_paths, f_filter.conditions[i].macro).value,
        f_filter.conditions[i].regexp)

(* C10 as stated: when the macro resolves on the row, (m, r, REGEXP) and   *)
(* (m, r, NOT_REGEXP) have different match results, for every operand r.   *)
C10_OppositeAsStated ==
    Evaluated(CONDITION_EVAL_TYPE_EXPRESSION) =>
        \A i, j \in LoadedIndices :
            (OppositePair(i, j) /\ Resolves(f_filter.conditions[i].macro))
                => f_res.matches[i] # f_res.matches[j]

(* C10 amended: when the macro resolves on the row and the regexp engine   *)
(* answers MATCH or NO_MATCH for the operand, (m, r, REGEXP) and           *)
(* (m, r, NOT_REGEXP) have different match results; when the engine        *)
(* reports an error both fail.                                             *)
C10_OppositeUnlessEngineError ==
    Evaluated(CONDITION_EVAL_TYPE_EXPRESSION) =>
        \A i, j \in LoadedIndices :
            (OppositePair(i, j) /\ Resolves(f_filter.conditions[i].macro))
                => IF EngineResult(i) \in {ZBX_REGEXP_MATCH, ZBX_REGEXP_NO_MATCH}
                   THEN f_res.matches[i] # f_res.matches[j]
                   ELSE f_res.matches[i] = FAIL /\ f_res.matches[j] = FAIL

(* a pair on a resolving macro where REGEXP fails and NOT_REGEXP passes *)
C10_Witness ==
    /\ Evaluated(CONDITION_EVAL_TYPE_EXPRESSION)
    /\ Len(f_filter.conditions) = 2
    /\ OppositePair(1, 2)
    /\ Resolves(f_filter.conditions[1].macro)
    /\ EngineResult(1) = ZBX_REGEXP_NO_MATCH
    /\ f_res.matches = <<FAIL, SUCCEED>>

(* what the regexp engine and the operator make of a value *)
Outcome(condition, value) ==
    LET m == regexp_match_ex(condition.regexps, value, condition.regexp)
    IN  IF m = ZBX_REGEXP_MATCH
        THEN (IF CONDITION_OPERATOR_REGEXP = condition.op THEN SUCCEED ELSE FAIL)
        ELSE IF m = ZBX_REGEXP_NO_MATCH
        THEN (IF CONDITION_OPERATOR_NOT_REGEXP = condition.op THEN SUCCEED ELSE FAIL)
        ELSE FAIL

(* C11: a condition whose macro does not resolve to a value on the row is  *)
(* FAIL under REGEXP and under NOT_REGEXP, whatever the regexp engine      *)
(* would answer for its operand: the engine is not consulted.              *)
C11_MissFails ==
    Evaluated(CONDITION_EVAL_TYPE_EXPRESSION) =>
        \A i \in LoadedIndices :
            ~Resolves(f_filter.conditions[i].macro) => f_res.matches[i] = FAIL

(* two conditions on a macro that misses: NOT_REGEXP with an operand the   *)
(* engine finds in no empty value, REGEXP with the operand that matches    *)
(* everything; both are FAIL                                               *)
C11_Witness ==
    /\ Evaluated(CONDITION_EVAL_TYPE_EXPRESSION)
    /\ Len(f_filter.conditions) = 2
    /\ \A i \in 1..2 : ~Resolves(f_filter.conditions[i].macro)
    /\ f_filter.conditions[1].op = CONDITION_OPERATOR_NOT_REGEXP
    /\ Outcome(f_filter.conditions[1], <<>>) = SUCCEED
    /\ f_filter.conditions[2].op = CONDITION_OPERATOR_REGEXP
    /\ Outcome(f_filter.conditions[2], <<>>) = SUCCEED
    /\ f_res.matches = <<FAIL, FAIL>>

(***************************************************************************)
(* Properties of the macro value lookup.                                   *)
(***************************************************************************)
(* the entries of the macro-path table for a macro *)
TableEntries(macro) == {k \in 1..Len(f_paths) : f_paths[k].lld_macro = macro}

PathOf(macro) == f_paths[CHOOSE k \in TableEntries(macro) : TRUE].path

(* C12: for a macro of the macro-path table the value is the one at the    *)
(* declared path, and a path that does not resolve on the row is a miss    *)
(* even when the row has a top-level key equal to the macro name; the      *)
(* top-level key is looked up only for macros absent from the table.       *)
C12_TableMacroNeverLooksUpKey ==
    Evaluated(CONDITION_EVAL_TYPE_EXPRESSION) =>
        \A i \in LoadedIndices :
            LET condition == f_filter.conditions[i]
            IN  IF TableEntries(condition.macro) # {}
                THEN IF PathKey(PathOf(condition.macro)) \in DOMAIN f_row
                     THEN f_res.matches[i] =
                             Outcome(condition, f_row[PathKey(PathOf(condition.macro))])
                     ELSE f_res.matches[i] = FAIL
                ELSE IF condition.macro \in DOMAIN f_row
                     THEN f_res.matches[i] = Outcome(condition, f_row[condition.macro])
                     ELSE f_res.matches[i] = FAIL

(* the first condition's macro is in the table, its path does not resolve  *)
(* and the row has the macro as a key with a value its operand matches;    *)
(* the second condition's macro is absent from the table and found by key  *)
C12_Witness ==
    /\ Evaluated(CONDITION_EVAL_TYPE_EXPRESSION)
    /\ Len(f_filter.conditions) = 2
    /\ TableEntries(f_filter.conditions[1].macro) # {}
    /\ PathKey(PathOf(f_filter.conditions[1].macro)) \notin DOMAIN f_row
    /\ f_filter.conditions[1].macro \in DOMAIN f_row
    /\ Outcome(f_filter.conditions[1], f_row[f_filter.conditions[1].macro]) = SUCCEED
    /\ TableEntries(f_filter.conditions[2].macro) = {}
    /\ f_filter.conditions[2].macro \in DOMAIN f_row
    /\ f_res.matches = <<FAIL, SUCCEED>>

(***************************************************************************)
(* Properties of the info lines.                                           *)
(***************************************************************************)
(* the info lines of the row that name the macro *)
LinesOn(macro) == {k \in 1..Len(f_info) : f_info[k][2] = macro}

ConditionMacros == {f_filter.conditions[i].macro : i \in LoadedIndices}

(* C13: after a row has been checked, the info holds exactly one line for  *)
(* every macro of the filter's conditions that does not resolve on the     *)
(* row, however many conditions use the macro, and none for a macro that   *)
(* resolves.                                                               *)
C13_OneLinePerMissingMacro ==
    f_pc = "evaluated" =>
        \A macro \in ConditionMacros :
            Cardinality(LinesOn(macro)) = IF Resolves(macro) THEN 0 ELSE 1

(***************************************************************************)
(* Properties of what a run persists.                                      *)
(***************************************************************************)
Called(w, name) == CallCount(loc[w].calls, name)

(* the rule row of w's invocation in the store *)
Row(w) == db_items[loc[w].lld_ruleid]

Columns(w) == {loc[w].sql[c].column : c \in 1..Len(loc[w].sql)}

(* w holds the lock, has read the rule row and is past the update          *)
(* statement and the cache diff, if any                                    *)
AtClean(w) == pc[w] = "clean" /\ loc[w].locked /\ Row(w).exists

(* C14: a run after which the rule row has the state and the error text    *)
(* the run read from it has issued no update statement and applied no diff *)
(* to the configuration cache.                                             *)
C14_NoChangeNoWrite ==
    \A w \in Workers :
       (/\ AtClean(w)
        /\ Row(w).state = loc[w].state
        /\ Row(w).error = loc[w].db_error.text)
          => /\ Called(w, "DBexecute") = 0
             /\ Called(w, "DCconfig_items_apply_changes") = 0
             /\ loc[w].sql = <<>>

(* a run through every downstream stage whose error text, info lines       *)
(* included, is the stored one: nothing is written                         *)
C14_Witness ==
    \E w \in Workers :
       /\ AtClean(w)
       /\ Called(w, "lld_update_hosts") = 1
       /\ loc[w].info # <<>>
       /\ loc[w].error.text = loc[w].db_error.text
       /\ Row(w).error = loc[w].error.text
       /\ Called(w, "DBexecute") = 0
       /\ Called(w, "DCconfig_items_apply_changes") = 0

(* w has passed error consolidation and the update statement *)
Consolidated(w) == pc[w] = "apply"

(* C15: the info lines are appended to the accumulated error text, and a   *)
(* run that has passed error consolidation has written that text to the    *)
(* error column iff it differs from the error read with the rule row;      *)
(* when it is equal the error column is not written.                       *)
C15_ErrorWrittenIffDiffers ==
    /\ [](\A w \in Workers :
            Consolidated(w) =>
               IF loc[w].error.text # loc[w].db_error.text
               THEN /\ "error" \in Columns(w)
                    /\ Called(w, "DBexecute") = 1
                    /\ Row(w).error = loc[w].error.text
               ELSE /\ "error" \notin Columns(w)
                    /\ Row(w).error = loc[w].db_error.text)
    /\ [][\A w \in Workers :
            (pc[w] = "transition" /\ pc'[w] = "error") =>
               loc'[w].error.text = loc[w].error.text \o loc[w].info]_vars

(* a downstream error followed by an info line, new to the rule, is in the *)
(* error column                                                            *)
C15_Witness ==
    \E w \in Workers :
       /\ Consolidated(w)
       /\ loc[w].info # <<>>
       /\ loc[w].error.text = <<ErrItems>> \o loc[w].info
       /\ loc[w].error.text # loc[w].db_error.text
       /\ Row(w).error = loc[w].error.text

(* w's run read the state NOTSUPPORTED and completed the downstream stages *)
Recovered(w) ==
    /\ pc[w] \in {"apply", "clean", "out"}
    /\ loc[w].locked
    /\ loc[w].state = ITEM_STATE_NOTSUPPORTED
    /\ Called(w, "lld_update_hosts") = 1

(* C16: a run that read the state NOTSUPPORTED and completed the           *)
(* downstream stages has emitted exactly one event and issued exactly one  *)
(* update statement, which sets state to NORMAL and carries the error iff  *)
(* the error text changed; no run issues more than one update statement.   *)
C16_OneEventOneStatement ==
    \A w \in Workers :
       /\ Called(w, "DBexecute") <= 1
       /\ Recovered(w) =>
             /\ Called(w, "zbx_add_event") = 1
             /\ Called(w, "DBexecute") = 1
             /\ "state" \in Columns(w)
             /\ loc[w].lld_rule_diff.state = ITEM_STATE_NORMAL
             /\ ("error" \in Columns(w)) <=> (loc[w].error.text # loc[w].db_error.text)
             /\ pc[w] \in {"apply", "clean"} => Row(w).state = ITEM_STATE_NORMAL

(* one statement has set the state and the new error text *)
C16_Witness ==
    \E w \in Workers :
       /\ Recovered(w) /\ pc[w] = "apply"
       /\ Called(w, "zbx_add_event") = 1
       /\ Called(w, "DBexecute") = 1
       /\ Len(loc[w].sql) = 2
       /\ Columns(w) = {"state", "error"}
       /\ Row(w).state = ITEM_STATE_NORMAL
       /\ Row(w).error = loc[w].error.text

(***************************************************************************)
(* Properties of the order of the steps of one run.                        *)
(***************************************************************************)
(* every call named a is earlier in the sequence than every call named b *)
Before(calls, a, b) ==
    \A i, j \in 1..Len(calls) : (calls[i] = a /\ calls[j] = b) => i < j

Loads == {"DBselect items", "lld_filter_load", "lld_macro_paths_get"}

(* C17: within one run nothing is called, and so nothing loaded from the   *)
(* store or the configuration cache, unless the lock was acquired first;   *)
(* in the calls of a run that returns, the event of the state transition   *)
(* is added, processed and cleared, in this order, before the update       *)
(* statement, and the update statement and the cache diff come before the  *)
(* unlock; the store and the cache change only in steps of a run that      *)
(* holds the lock.                                                         *)
C17_StepsAreOrdered ==
    /\ [](\A w \in Workers :
            /\ loc[w].calls # <<>> => loc[w].locked /\ pc[w] # "lock"
            /\ pc[w] = "out" =>
                  /\ Before(loc[w].calls, "zbx_add_event", "zbx_process_events")
                  /\ Before(loc[w].calls, "zbx_process_events", "zbx_clean_events")
                  /\ Before(loc[w].calls, "zbx_clean_events", "DBexecute")
                  /\ Before(loc[w].calls, "DBexecute", "DCconfig_unlock_lld_rule")
                  /\ Before(loc[w].calls, "DCconfig_items_apply_changes",
                            "DCconfig_unlock_lld_rule"))
    /\ [][(db_items' # db_items \/ dc_items' # dc_items) =>
             \E w \in Workers :
                /\ loc'[w].calls # loc[w].calls
                /\ loc[w].locked
                /\ loc[w].lld_ruleid \in dc_locked
                /\ Called(w, "DCconfig_unlock_lld_rule") = 0]_vars

(* a run that read the rule, emitted the event, persisted and applied the  *)
(* change and unlocked                                                     *)
C17_Witness ==
    \E w \in Workers :
       /\ pc[w] = "out" /\ loc[w].locked
       /\ \A name \in Loads \cup {"zbx_add_event", "zbx_process_events",
                                  "zbx_clean_events", "DBexecute",
                                  "DCconfig_items_apply_changes",
                                  "DCconfig_unlock_lld_rule"} :
             Called(w, name) = 1

(***************************************************************************)
(* Properties of the state transition and of the failure paths.            *)
(***************************************************************************)
Stages ==
    {"lld_filter_load", "lld_macro_paths_get", "lld_rows_get", "lld_update_items",
     "lld_item_links_sort", "lld_update_triggers", "lld_update_graphs",
     "lld_update_hosts"}

Downstreams ==
    {"lld_update_items", "lld_item_links_sort", "lld_update_triggers",
     "lld_update_graphs", "lld_update_hosts"}

(* C18: a run has emitted an event only if it read the state NOTSUPPORTED  *)
(* and the filter load, the macro-path load, the row extraction and every  *)
(* downstream stage were called and none made it leave; the state column   *)
(* is in the update statement only together with the event; a run that     *)
(* read the state NORMAL or left at a load or at the payload has no event  *)
(* and no state column.                                                    *)
C18_EventOnlyOnRecovery ==
    \A w \in Workers :
       /\ Called(w, "zbx_add_event") <= 1
       /\ Called(w, "zbx_add_event") = 1 =>
             /\ loc[w].state = ITEM_STATE_NOTSUPPORTED
             /\ \A name \in Stages : Called(w, name) = 1
       /\ ("state" \in Columns(w)) <=> (Called(w, "zbx_add_event") = 1)
       /\ (ZBX_FLAGS_ITEM_DIFF_UPDATE_STATE \in loc[w].lld_rule_diff.flags)
             <=> (Called(w, "zbx_add_event") = 1)
       /\ (pc[w] = "clean" /\ loc[w].locked /\ Row(w).exists
              /\ Called(w, "zbx_add_event") = 0)
             => Row(w).state = loc[w].state

(* a run that read NOTSUPPORTED and could not read the payload wrote the   *)
(* error and left the state NOTSUPPORTED, without an event                 *)
C18_Witness ==
    \E w \in Workers :
       /\ AtClean(w)
       /\ loc[w].state = ITEM_STATE_NOTSUPPORTED
       /\ Called(w, "lld_rows_get") = 1
       /\ Called(w, "lld_update_items") = 0
       /\ Called(w, "zbx_add_event") = 0
       /\ Columns(w) = {"error"}
       /\ Called(w, "DBexecute") = 1
       /\ Row(w).state = ITEM_STATE_NOTSUPPORTED

(* the last call of w's run was a downstream stage that may signal that    *)
(* the parent host was removed, and the run went to clean from it          *)
Removed(w, calls) ==
    /\ loc[w].locked
    /\ calls # <<>>
    /\ calls[Len(calls)] \in {"lld_update_items", "lld_update_triggers",
                              "lld_update_graphs"}

Front(calls) == SubSeq(calls, 1, Len(calls) - 1)

(* C19: when lld_update_items, lld_update_triggers or lld_update_graphs    *)
(* signals that the parent host was removed the run goes to clean from     *)
(* there: it has called no later stage, emitted no event, built and issued *)
(* no update statement and applied no diff, the rule row keeps the state   *)
(* and the error it had, and the run unlocks as its next and last call.    *)
C19_ParentHostRemovedIsQuiet ==
    /\ [](\A w \in Workers :
            /\ (pc[w] = "clean" /\ Removed(w, loc[w].calls)) =>
                  /\ Called(w, "lld_update_hosts") = 0
                  /\ Called(w, "zbx_add_event") = 0
                  /\ Called(w, "DBexecute") = 0
                  /\ Called(w, "DCconfig_items_apply_changes") = 0
                  /\ loc[w].sql = <<>>
                  /\ loc[w].lld_rule_diff.flags = {}
                  /\ Row(w).state = loc[w].state
                  /\ Row(w).error = loc[w].db_error.text
                  /\ dc_items[loc[w].lld_ruleid].state = loc[w].state
                  /\ dc_items[loc[w].lld_ruleid].error = loc[w].db_error.text
            /\ (pc[w] = "out" /\ loc[w].calls # <<>>
                   /\ Removed(w, Front(loc[w].calls))) =>
                  /\ Called(w, "DBexecute") = 0
                  /\ Called(w, "DCconfig_items_apply_changes") = 0
                  /\ Unlocks(w) = 1)
    /\ [][\A w \in Workers :
            (/\ pc[w] \in {"update_items", "update_triggers", "update_graphs"}
             /\ pc'[w] # pc[w])
               => /\ pc'[w] \in {"update_triggers", "update_graphs", "update_hosts",
                                 "clean"}
                  /\ UNCHANGED <<dc_locked, dc_items, db_items>>]_vars

(* update_triggers signalled it in a run that read NOTSUPPORTED and had a  *)
(* new error text from update_items: nothing was written                   *)
C19_Witness ==
    \E w \in Workers :
       /\ pc[w] = "clean" /\ Removed(w, loc[w].calls)
       /\ loc[w].calls[Len(loc[w].calls)] = "lld_update_triggers"
       /\ loc[w].state = ITEM_STATE_NOTSUPPORTED
       /\ loc[w].error.text = <<ErrItems>>
       /\ loc[w].error.text # loc[w].db_error.text
       /\ Row(w).state = ITEM_STATE_NOTSUPPORTED
       /\ Row(w).error = loc[w].db_error.text
       /\ Called(w, "DBexecute") = 0

(* what the filter load and the macro-path load report when they fail *)
LoadErrors(w) ==
    {<<ErrInvalidRuleId(loc[w].lld_ruleid)>>}
       \cup {<<ErrNoGlobalRegexp(Tail(db_item_condition[i].value))>> :
                i \in {j \in 1..Len(db_item_condition) :
                          /\ db_item_condition[j].value # <<>>
                          /\ db_item_condition[j].value[1] = "@"}}
       \cup {<<ErrCannotProcessMacro(db_lld_macro_path[i].lld_macro)>> :
                i \in 1..Len(db_lld_macro_path)}

(* the rule id is denied by the configuration cache, an "@name" operand    *)
(* resolves to no expression, or a macro path is not a JSON path           *)
LoadFails(w) ==
    \/ loc[w].lld_ruleid \notin dc_config.items
    \/ \E i \in 1..Len(db_item_condition) :
          /\ db_item_condition[i].value # <<>>
          /\ db_item_condition[i].value[1] = "@"
          /\ DCget_expressions_by_name(dc_config, Tail(db_item_condition[i].value)) = {}
    \/ \E i \in 1..Len(db_lld_macro_path) :
          db_lld_macro_path[i].path \notin JsonPaths

(* w's run has called the loads and is at or past error consolidation *)
PastLoads(w) ==
    /\ loc[w].locked
    /\ pc[w] \in {"error", "persist", "apply", "clean"}
    /\ Called(w, "lld_filter_load") = 1

(* C20: a run whose filter load or macro-path load fails goes from the     *)
(* failing load to error consolidation with the reported text as its       *)
(* error; it has extracted no row, called no downstream stage and made no  *)
(* state transition, and once it has passed the update statement the rule  *)
(* row's error is the reported text and its state the one it had.          *)
C20_LoadFailureGoesToConsolidation ==
    /\ [](\A w \in Workers :
            (PastLoads(w) /\ LoadFails(w)) =>
               /\ Called(w, "lld_rows_get") = 0
               /\ loc[w].lld_rows = <<>>
               /\ \A name \in Downstreams : Called(w, name) = 0
               /\ Called(w, "zbx_add_event") = 0
               /\ "state" \notin Columns(w)
               /\ ~loc[w].error.null
               /\ loc[w].error.text \in LoadErrors(w)
               /\ pc[w] \in {"apply", "clean"} =>
                     /\ Row(w).error = loc[w].error.text
                     /\ Row(w).state = loc[w].state)
    /\ [][\A w \in Workers :
            (pc[w] \in {"filter_load", "macro_paths"} /\ pc'[w] # pc[w]) =>
               IF LoadFails(w)
               THEN pc'[w] \in {"macro_paths", "error"}
                       /\ (pc[w] = "macro_paths" => pc'[w] = "error")
               ELSE pc'[w] \in {"macro_paths", "rows_get"}]_vars

(* the macro-path load failed after the filter was loaded, and the text is *)
(* in the error column                                                     *)
C20_Witness ==
    \E w \in Workers :
       /\ PastLoads(w) /\ LoadFails(w) /\ pc[w] = "clean"
       /\ Called(w, "lld_macro_paths_get") = 1
       /\ loc[w].error.text = <<ErrCannotProcessMacro("{#A}")>>
       /\ Called(w, "DBexecute") = 1
       /\ Row(w).error = <<ErrCannotProcessMacro("{#A}")>>

(***************************************************************************)
(* Properties of the state column across runs.                             *)
(***************************************************************************)
(* C21: across the runs the state of a rule, in the store and in the       *)
(* configuration cache, changes only from NOTSUPPORTED to NORMAL; a run    *)
(* has the state column in its update statement only if it read the state *)
(* NOTSUPPORTED, the value it writes is NORMAL, and the statement is       *)
(* issued while the stored state is NOTSUPPORTED; no run, whatever its     *)
(* error text, moves a rule to NOTSUPPORTED.                               *)
C21_StateOnlyBecomesNormal ==
    /\ [](\A w \in Workers :
            "state" \in Columns(w) =>
               /\ loc[w].state = ITEM_STATE_NOTSUPPORTED
               /\ loc[w].lld_rule_diff.state = ITEM_STATE_NORMAL)
    /\ [][/\ \A id \in RuleIds :
                /\ db_items'[id].state # db_items[id].state =>
                      /\ db_items[id].state = ITEM_STATE_NOTSUPPORTED
                      /\ db_items'[id].state = ITEM_STATE_NORMAL
                /\ dc_items'[id].state # dc_items[id].state =>
                      /\ dc_items[id].state = ITEM_STATE_NOTSUPPORTED
                      /\ dc_items'[id].state = ITEM_STATE_NORMAL
          /\ \A w \in Workers :
                (pc[w] = "persist" /\ pc'[w] = "apply" /\ "state" \in Columns(w)) =>
                   /\ Row(w).state = ITEM_STATE_NOTSUPPORTED
                   /\ db_items'[loc[w].lld_ruleid].state = ITEM_STATE_NORMAL]_vars

(* one run has made the rule NORMAL; the next one read NORMAL, wrote an    *)
(* error text that is not empty and left the state NORMAL                  *)
C21_Witness ==
    \E w \in Workers : \E v \in Workers \ {w} :
       /\ pc[v] = "out" /\ "state" \in Columns(v)
       /\ AtClean(w)
       /\ loc[w].state = ITEM_STATE_NORMAL
       /\ Columns(w) = {"error"}
       /\ Called(w, "DBexecute") = 1
       /\ Row(w).error # <<>>
       /\ Row(w).state = ITEM_STATE_NORMAL

(***************************************************************************)
(* Row extraction                                                          *)
(***************************************************************************)

Extracted == f_pc = "extracted"

(* the two payload shapes: an array, an object with an array under "data" *)
Accepted(value) ==
    \/ value.kind = "array"
    \/ value.kind = "object" /\ value.data = "array"

Passes(p) ==
    p.object /\ filter_evaluate(f_filter, p.pairs, f_paths).ret = SUCCEED

C23_RowsArePassingObjects ==
    (Extracted /\ Accepted(f_value)) =>
       /\ f_rows.ret = SUCCEED
       /\ f_rows.error = <<>>
       /\ \E kept \in {SelectSeq(f_value.elements, Passes)} :
             /\ Len(f_rows.lld_rows) = Len(kept)
             /\ \A i \in DOMAIN kept :
                   /\ f_rows.lld_rows[i].jp_row = kept[i].pairs
                   /\ f_rows.lld_rows[i].item_links = <<>>

(* of two elements one was not an object or was dropped by the filter, and *)
(* the other has become the only row                                       *)
C23_Witness ==
    /\ Extracted
    /\ Accepted(f_value)
    /\ f_filter.conditions # <<>>
    /\ Len(f_value.elements) = 2
    /\ Len(f_rows.lld_rows) = 1
    /\ f_value.elements[1].object
    /\ ~Passes(f_value.elements[1])

(***************************************************************************)
(* Coverage diagnostics in a run                                           *)
(***************************************************************************)

(* the rows of the run have produced info lines *)
Diagnosed(w) == loc[w].locked /\ loc[w].info # <<>>

EndsWith(text, tail) ==
    /\ Len(tail) <= Len(text)
    /\ SubSeq(text, Len(text) - Len(tail) + 1, Len(text)) = tail

LinesOf(w, p) ==
    \E lines \in {lld_check_received_data_for_filter(loc[w].filter, p.pairs,
                                                     loc[w].lld_macro_paths)} :
       \A i \in DOMAIN lines : \E j \in DOMAIN loc[w].info : loc[w].info[j] = lines[i]

(* C24: info lines do not change the course of a run.  Row extraction that *)
(* has produced info lines goes on to update_items, and the info holds the *)
(* lines of every object of the payload, dropped by the filter or not; a   *)
(* run with info lines that reaches the error label has called every       *)
(* downstream stage once and has made the NOTSUPPORTED to NORMAL           *)
(* transition when the state read was NOTSUPPORTED; the info lines are put *)
(* after the error text, and that value is the one compared with the       *)
(* stored error and written to the store and the diff                      *)
C24_DiagnosticsAreAdvisory ==
    /\ [](\A w \in Workers :
            /\ (pc[w] = "update_items" /\ Diagnosed(w)) =>
                  \A i \in DOMAIN loc[w].value.elements :
                     loc[w].value.elements[i].object =>
                        LinesOf(w, loc[w].value.elements[i])
            /\ (Diagnosed(w) /\ pc[w] \in {"error", "persist", "apply"}) =>
                  /\ \A stage \in Downstreams : Called(w, stage) = 1
                  /\ EndsWith(loc[w].error.text, loc[w].info)
                  /\ loc[w].state = ITEM_STATE_NOTSUPPORTED =>
                        /\ Called(w, "zbx_add_event") = 1
                        /\ ZBX_FLAGS_ITEM_DIFF_UPDATE_STATE \in loc[w].lld_rule_diff.flags
                        /\ "state" \in Columns(w)
            /\ (Diagnosed(w) /\ pc[w] \in {"persist", "apply"}) =>
                  /\ "error" \in Columns(w) <=> loc[w].error.text # loc[w].db_error.text
                  /\ "error" \in Columns(w) =>
                        loc[w].lld_rule_diff.error = loc[w].error.text
            /\ (Diagnosed(w) /\ pc[w] = "apply" /\ "error" \in Columns(w)) =>
                  Row(w).error = loc[w].error.text)
    /\ [][\A w \in Workers :
             /\ (pc[w] = "rows_get" /\ pc'[w] # "rows_get" /\ loc'[w].info # <<>>) =>
                   pc'[w] = "update_items"
             /\ (pc[w] = "transition" /\ pc'[w] # "transition") =>
                   /\ pc'[w] = "error"
                   /\ loc'[w].error.text = loc[w].error.text \o loc[w].info]_vars

(* a rule that was NOTSUPPORTED: the filter has dropped a row that gave an *)
(* info line, a downstream stage has reported an error, and state and      *)
(* error text followed by the info lines have been written                 *)
C24_Witness ==
    \E w \in Workers :
       /\ pc[w] = "apply"
       /\ Diagnosed(w)
       /\ loc[w].state = ITEM_STATE_NOTSUPPORTED
       /\ Len(loc[w].lld_rows) = 1
       /\ Len(loc[w].value.elements) = 3
       /\ Len(loc[w].error.text) > Len(loc[w].info)
       /\ Columns(w) = {"state", "error"}
       /\ Row(w).error = loc[w].error.text
       /\ Row(w).state = ITEM_STATE_NORMAL

(***************************************************************************)
(* Loaded conditions                                                       *)
(***************************************************************************)

Loaded == f_pc \in {"evaluate", "evaluated"}

(* the operand stored for the condition *)
StoredValue(condition) ==
    f_item_condition[CHOOSE i \in DOMAIN f_item_condition :
                        f_item_condition[i].item_conditionid = condition.id].value

BeginsWithAt(string) == string # <<>> /\ string[1] = "@"

(* C25: after lld_filter_load() has succeeded, a condition whose regexp    *)
(* begins with '@' has a regexps vector that is not empty, and any other   *)
(* condition has an empty regexps vector and as regexp the stored operand  *)
(* after macro substitution                                                *)
C25_RegexpSetFollowsPrefix ==
    Loaded =>
       \A i \in DOMAIN f_filter.conditions :
          IF BeginsWithAt(f_filter.conditions[i].regexp)
          THEN f_filter.conditions[i].regexps # {}
          ELSE /\ f_filter.conditions[i].regexps = {}
               /\ f_filter.conditions[i].regexp =
                     substitute_simple_macros(f_cache,
                                              StoredValue(f_filter.conditions[i]))

(***************************************************************************)
(* The configuration cache                                                 *)
(***************************************************************************)

Applies(w) == Called(w, "DCconfig_items_apply_changes")

StatementText(w, column) ==
    loc[w].sql[CHOOSE c \in 1..Len(loc[w].sql) : loc[w].sql[c].column = column].text

(* the diff of the run names the columns of its update statement, with the *)
(* same values                                                             *)
DiffIsStatement(w) ==
    /\ ZBX_FLAGS_ITEM_DIFF_UPDATE_STATE \in loc[w].lld_rule_diff.flags
          <=> "state" \in Columns(w)
    /\ ZBX_FLAGS_ITEM_DIFF_UPDATE_ERROR \in loc[w].lld_rule_diff.flags
          <=> "error" \in Columns(w)
    /\ "state" \in Columns(w) => loc[w].lld_rule_diff.state = ITEM_STATE_NORMAL
    /\ "error" \in Columns(w) =>
          loc[w].lld_rule_diff.error = StatementText(w, "error")

(* C26: the cached rule changes only in the step of a run that calls       *)
(* DCconfig_items_apply_changes() with its diff, while the run holds the   *)
(* lock; a run makes that call at most once, after its one DBexecute() and *)
(* before its unlock, and has made it at clean exactly when a flag of the  *)
(* diff is set; the diff has the columns and values of the statement, so   *)
(* that store and cache agree on them afterwards                           *)
C26_CacheWrittenOnceByApply ==
    /\ [](\A w \in Workers :
            /\ Applies(w) <= 1
            /\ pc[w] \notin {"clean", "out"} => Applies(w) = 0
            /\ (pc[w] \in {"clean", "out"} /\ loc[w].locked) =>
                  (Applies(w) = 1 <=> loc[w].lld_rule_diff.flags # {})
            /\ Applies(w) = 1 =>
                  /\ Called(w, "DBexecute") = 1
                  /\ Before(loc[w].calls, "DBexecute", "DCconfig_items_apply_changes")
                  /\ Before(loc[w].calls, "DCconfig_items_apply_changes",
                            "DCconfig_unlock_lld_rule")
                  /\ DiffIsStatement(w)
            /\ (Applies(w) = 1 /\ pc[w] = "clean") =>
                  /\ "state" \in Columns(w) =>
                        dc_items[loc[w].lld_ruleid].state = Row(w).state
                  /\ "error" \in Columns(w) =>
                        dc_items[loc[w].lld_ruleid].error = Row(w).error)
    /\ [][/\ dc_items' # dc_items =>
                \E w \in Workers :
                   /\ pc[w] = "apply" /\ pc'[w] = "clean"
                   /\ loc[w].lld_ruleid \in dc_locked
                   /\ loc[w].lld_ruleid \in dc_locked'
                   /\ loc'[w].calls = loc[w].calls \o <<"DCconfig_items_apply_changes">>
                   /\ dc_items' =
                         DCconfig_items_apply_changes(dc_items, loc[w].lld_rule_diff)
          /\ \A w \in Workers :
                Len(loc'[w].calls) = Len(loc[w].calls) + 1 =>
                   (loc'[w].calls[Len(loc'[w].calls)] = "DCconfig_items_apply_changes"
                       <=> (pc[w] = "apply" /\ loc[w].lld_rule_diff.flags # {}))]_vars

(* a run has written the error text alone to the store and then to the     *)
(* cache, which held another text, and still holds the lock                *)
C26_Witness ==
    \E w \in Workers :
       /\ pc[w] = "clean"
       /\ Applies(w) = 1
       /\ loc[w].lld_rule_diff.flags = {ZBX_FLAGS_ITEM_DIFF_UPDATE_ERROR}
       /\ loc[w].db_error.text # loc[w].error.text
       /\ dc_items[loc[w].lld_ruleid].error = loc[w].error.text
       /\ loc[w].lld_ruleid \in dc_locked

(***************************************************************************)
(* The downstream stages                                                   *)
(***************************************************************************)

StageOrder ==
    <<"lld_update_items", "lld_item_links_sort", "lld_update_triggers",
      "lld_update_graphs", "lld_update_hosts">>

IsDownstream(name) == name \in Downstreams

StagePcs == {"update_items", "update_triggers", "update_graphs", "update_hosts"}

(* C27: the downstream calls of a run are a beginning of update_items,     *)
(* sort_item_links, update_triggers, update_graphs, update_hosts, so each  *)
(* is made at most once and in that order; they come after one successful  *)
(* filter load, macro-path load and row extraction; while they are made    *)
(* the run holds the rows that lld_rows_get() gave and the table that      *)
(* lld_macro_paths_get() gave, and no stage step changes them; the step of *)
(* update_hosts goes on to the state transition whatever it reported       *)
C27_StagesInFixedOrder ==
    /\ [](\A w \in Workers :
            /\ \E made \in {SelectSeq(loc[w].calls, IsDownstream)} :
                  /\ Len(made) <= Len(StageOrder)
                  /\ made = SubSeq(StageOrder, 1, Len(made))
                  /\ made # <<>> =>
                        /\ SubSeq(loc[w].calls, 1, 5) =
                              <<"DBselect items", "lld_filter_load",
                                "lld_macro_paths_get", "lld_rows_get",
                                "lld_update_items">>
                        /\ ~LoadFails(w)
                        /\ Accepted(loc[w].value)
            /\ pc[w] \in StagePcs =>
                  /\ loc[w].lld_rows =
                        lld_rows_get(loc[w].value, loc[w].filter,
                                     loc[w].lld_macro_paths).lld_rows
                  /\ loc[w].lld_macro_paths =
                        lld_macro_paths_get(db_lld_macro_path).lld_macro_paths)
    /\ [][\A w \in Workers :
             /\ (pc[w] \in StagePcs /\ pc'[w] # pc[w]) =>
                   /\ loc'[w].lld_rows = loc[w].lld_rows
                   /\ loc'[w].lld_macro_paths = loc[w].lld_macro_paths
                   /\ loc'[w].filter = loc[w].filter
             /\ (pc[w] = "update_hosts" /\ pc'[w] # pc[w]) =>
                   /\ pc'[w] = "transition"
                   /\ Called(w, "lld_update_hosts") = 0
                   /\ loc'[w].calls = loc[w].calls \o <<"lld_update_hosts">>]_vars

(* update_hosts has reported an error after the four stages before it, and *)
(* the run has gone on to write that error text                            *)
C27_Witness ==
    \E w \in Workers :
       /\ pc[w] = "apply"
       /\ SelectSeq(loc[w].calls, IsDownstream) = StageOrder
       /\ loc[w].lld_rows # <<>>
       /\ loc[w].lld_macro_paths # <<>>
       /\ loc[w].error.text # <<>>
       /\ loc[w].error.text[1] = ErrHosts
       /\ Row(w).error = loc[w].error.text

(***************************************************************************)
(* The rule record is missing                                              *)
(***************************************************************************)

(* the run holds the lock and has found no row for the rule *)
Missing(w) ==
    /\ loc[w].locked
    /\ pc[w] \notin {"lock", "select"}
    /\ ~Row(w).exists

(* C28: a run that finds no row for the rule goes from the select to clean *)
(* and out: its only calls are the select and the unlock, it has loaded no *)
(* condition and no macro path, holds no row and no info line, has built   *)
(* no statement and set no flag of the diff; none of its steps changes the *)
(* store or the cache, and its step from clean gives the lock back         *)
C28_MissingRuleOnlyUnlocks ==
    /\ [](\A w \in Workers :
            Missing(w) =>
               /\ pc[w] \in {"clean", "out"}
               /\ loc[w].calls = IF pc[w] = "clean" THEN <<"DBselect items">>
                                 ELSE <<"DBselect items", "DCconfig_unlock_lld_rule">>
               /\ loc[w].filter.conditions = <<>>
               /\ loc[w].lld_macro_paths = <<>>
               /\ loc[w].lld_rows = <<>>
               /\ loc[w].info = <<>>
               /\ loc[w].sql = <<>>
               /\ loc[w].lld_rule_diff.flags = {}
               /\ loc[w].error.null)
    /\ [][\A w \in Workers :
             /\ (pc[w] = "select" /\ pc'[w] # pc[w] /\ ~Row(w).exists) =>
                   pc'[w] = "clean"
             /\ (Missing(w) /\ pc'[w] # pc[w]) =>
                   /\ db_items' = db_items
                   /\ dc_items' = dc_items
                   /\ pc[w] = "clean" =>
                         /\ loc[w].lld_ruleid \in dc_locked
                         /\ dc_locked' = dc_locked \ {loc[w].lld_ruleid}
                         /\ pc'[w] = "out"]_vars

(* a run that found no row has returned the lock, and the other worker has *)
(* taken it since                                                          *)
C28_Witness ==
    \E w \in Workers : \E v \in Workers \ {w} :
       /\ pc[w] = "out"
       /\ Missing(w)
       /\ Unlocks(w) = 1
       /\ pc[v] = "select"
       /\ loc[v].locked

(***************************************************************************)
(* One run after another                                                   *)
(***************************************************************************)

(* the run has come through the error label: it was not refused, found the *)
(* row and no downstream stage ended it                                    *)
ReachedPersist(w) ==
    /\ loc[w].locked
    /\ pc[w] \in {"persist", "apply", "clean", "out"}
    /\ Row(w).exists
    /\ Called(w, "lld_update_hosts") = 1 \/ Called(w, "lld_update_items") = 0

(* the row as the run leaves it *)
LeftState(v) == IF "state" \in Columns(v) THEN ITEM_STATE_NORMAL ELSE loc[v].state
LeftError(v) ==
    IF "error" \in Columns(v) THEN StatementText(v, "error") ELSE loc[v].db_error.text

(* v has run and left the lock; w has taken it since on the same rule with *)
(* the same payload, has read the row as v left it, and has come to the    *)
(* same error text                                                         *)
Follows(v, w) ==
    /\ pc[v] = "out"
    /\ ReachedPersist(v)
    /\ pc[w] \in {"persist", "apply", "clean"}
    /\ ReachedPersist(w)
    /\ loc[w].lld_ruleid = loc[v].lld_ruleid
    /\ loc[w].value = loc[v].value
    /\ loc[w].state = LeftState(v)
    /\ loc[w].db_error.text = LeftError(v)
    /\ loc[w].error.text = loc[v].error.text

(* C29: a run that follows a run which reached the persist step, on the    *)
(* same rule and payload, with the row as the first run left it and with   *)
(* the same error text, has the same rows and info lines, builds no        *)
(* statement, sets no flag of the diff, adds no event, calls neither       *)
(* DBexecute() nor DCconfig_items_apply_changes(), and finds store and     *)
(* cache holding the first run's error text                                *)
C29_SecondRunWritesNothing ==
    \A v \in Workers : \A w \in Workers \ {v} :
       Follows(v, w) =>
          /\ loc[w].lld_rows = loc[v].lld_rows
          /\ loc[w].info = loc[v].info
          /\ loc[w].sql = <<>>
          /\ loc[w].lld_rule_diff.flags = {}
          /\ Called(w, "zbx_add_event") = 0
          /\ Called(w, "DBexecute") = 0
          /\ Applies(w) = 0
          /\ Row(w).error = loc[v].error.text
          /\ Row(w).state = LeftState(v)
          /\ dc_items[loc[w].lld_ruleid].state = LeftState(v)

(* the first run made the rule NORMAL and wrote an error text that is not  *)
(* empty; the second has come to clean with the same text and no call      *)
C29_Witness ==
    \E v \in Workers : \E w \in Workers \ {v} :
       /\ Follows(v, w)
       /\ pc[w] = "clean"
       /\ Columns(v) = {"state", "error"}
       /\ loc[v].error.text # <<>>
       /\ loc[v].info # <<>>
       /\ Called(w, "lld_update_hosts") = 1
       /\ Called(w, "DBexecute") = 0

====
